---- MODULE Spec2Model ----
(***************************************************************************)
(* Questionnaire rules engine, risk scorer and questionnaire/generate      *)
(* endpoint of the DQ agent backend.                                        *)
(*                                                                          *)
(* Conventions of the model:                                                *)
(*  - a Python dict is a function whose DOMAIN is the set of keys present;  *)
(*    d.get(k, default) is Get(d, k, default);                              *)
(*  - strings the code searches or lower-cases (criteria labels, warning    *)
(*    descriptions) are sequences of one-character strings; strings the     *)
(*    code only builds or compares as a whole are TLA+ strings;             *)
(*  - an insertion-ordered dict that the code iterates (changes) is a       *)
(*    sequence of <<key, value>> pairs with distinct keys;                  *)
(*  - monetary amounts of dq_data are integers in hundredths of a currency  *)
(*    unit, so 500,000.01 is 50000001;                                      *)
(*  - confidence scores are integers in hundredths (0.95 is 95).            *)
(***************************************************************************)
EXTENDS Integers, Sequences, FiniteSets, TLC

VARIABLES
    op,        \* the operation that was called ("idle" before any call)
    dq_data,   \* the report (or request) the operation was called with
    questions, \* the question list the operation returned
    result     \* what else the operation returned (<<>> when nothing)

vars == <<op, dq_data, questions, result>>

----------------------------------------------------------------------------
(* Bounds of the model *)

\* longest section a single rule is called with
MaxPortfolios == 2
MaxChanges == 2
MaxWriteoffs == 2
MaxWarnings == 2
\* longest portfolio list of a report given to the whole engine
MaxReportPortfolios == 2
\* most objects in the array the AI returns
MaxAiQuestions == 3
\* longest portfolio list given to the risk scorer
MaxRiskPortfolios == 2

----------------------------------------------------------------------------
(* Python primitives *)

\* dict.get(k, default)
Get(d, k, def) == IF k \in DOMAIN d THEN d[k] ELSE def

\* the value None where a string is expected
NoneStr == <<"None">>

\* needle in haystack, for strings as character sequences
Contains(needle, haystack) ==
    \E i \in 0..(Len(haystack) - Len(needle)) :
        SubSeq(haystack, i + 1, i + Len(needle)) = needle

UpperAlpha == <<"A","B","C","D","E","F","G","H","I","J","K","L","M",
                "N","O","P","Q","R","S","T","U","V","W","X","Y","Z">>
LowerAlpha == <<"a","b","c","d","e","f","g","h","i","j","k","l","m",
                "n","o","p","q","r","s","t","u","v","w","x","y","z">>

LowerChar(c) ==
    IF \E i \in 1..26 : UpperAlpha[i] = c
    THEN LowerAlpha[CHOOSE i \in 1..26 : UpperAlpha[i] = c]
    ELSE c

\* str.lower()
Lower(s) == [i \in 1..Len(s) |-> LowerChar(s[i])]

Digits == <<"0","1","2","3","4","5","6","7","8","9">>

\* str(n) for a non-negative integer
RECURSIVE NatToStr(_)
NatToStr(n) ==
    IF n < 10 THEN Digits[n + 1]
    ELSE NatToStr(n \div 10) \o Digits[(n % 10) + 1]

\* str(n), the {n} of an f-string
IntToStr(n) == IF n < 0 THEN "-" \o NatToStr(0 - n) ELSE NatToStr(n)

\* three digits, zero padded
Pad3(n) == Digits[(n \div 100) + 1] \o Digits[((n \div 10) % 10) + 1] \o Digits[(n % 10) + 1]

\* a non-negative integer with thousands separators
RECURSIVE GroupThousands(_)
GroupThousands(n) ==
    IF n < 1000 THEN NatToStr(n)
    ELSE GroupThousands(n \div 1000) \o "," \o Pad3(n % 1000)

\* f"{amount:,.2f}" of an amount given in hundredths
FormatMoney(cents) ==
    LET a == IF cents < 0 THEN 0 - cents ELSE cents
        body == GroupThousands(a \div 100) \o "." \o
                Digits[((a % 100) \div 10) + 1] \o Digits[(a % 10) + 1]
    IN  IF cents < 0 THEN "-" \o body ELSE body

\* sum(xs) of a sequence of integers
RECURSIVE SumSeq(_)
SumSeq(xs) == IF xs = <<>> THEN 0 ELSE Head(xs) + SumSeq(Tail(xs))

\* [f(x) for x in xs]
MapSeq(f(_), xs) == [i \in 1..Len(xs) |-> f(xs[i])]

\* min(S) and max(S) of a non-empty set of integers
MinOf(S) == CHOOSE m \in S : \A x \in S : m <= x
MaxOf(S) == CHOOSE m \in S : \A x \in S : x <= m

\* all sequences over S of length at most n
SeqUpTo(S, n) == UNION {[1..k -> S] : k \in 0..n}

----------------------------------------------------------------------------
(* Literals of the source *)

RelevantPortfolio  == <<"R","e","l","e","v","a","n","t"," ","P","o","r","t","f","o","l","i","o">>
ConvertedPortfolio == <<"C","o","n","v","e","r","t","e","d"," ","P","o","r","t","f","o","l","i","o">>
ErrorNeedle        == <<"E","r","r","o","r">>
ConfirmNeedle      == <<"c","o","n","f","i","r","m">>

\* 500000 currency units, in hundredths
DelinquentThreshold == 50000000
SignificantThreshold == 10
HighImpactThreshold == 50

\* variant: high sorts before critical
PriorityOrderHighFirst == [critical |-> 1, high |-> 0, medium |-> 2, low |-> 3]

\* priority_order of generate_questionnaire
PriorityOrder == [critical |-> 0, high |-> 1, medium |-> 2, low |-> 3]

\* priority_order.get(x.priority, 3)
PriorityRank(p) == Get(PriorityOrder, p, 3)

----------------------------------------------------------------------------
(* Question (models/question_models.py) *)

NoFollowUps == <<"None">>

Question(id, category, priority, question_text, context, expected_response_type, validation_rules, related_data, follow_up_questions, order_sequence, confidence_score) ==
    [id |-> id,
     category |-> category,
     priority |-> priority,
     question_text |-> question_text,
     context |-> context,
     expected_response_type |-> expected_response_type,
     validation_rules |-> validation_rules,
     related_data |-> related_data,
     follow_up_questions |-> follow_up_questions,
     order_sequence |-> order_sequence,
     generated_by_ai |-> TRUE,
     confidence_score |-> confidence_score]

\* datetime.now().strftime('%Y%m%d_%H%M%S') for a clock reading in seconds
Timestamp(now) == "T" \o NatToStr(now)

----------------------------------------------------------------------------
(* generate_overview_questions *)

\* variant: the scan keeps the first entry of each kind
RECURSIVE LocateFirstPortfolios(_, _, _)
LocateFirstPortfolios(portfolios, relevant_portfolio, error_portfolio) ==
    IF portfolios = <<>> THEN [relevant |-> relevant_portfolio, error |-> error_portfolio]
    ELSE LET portfolio == Head(portfolios) IN
         IF Get(portfolio, "criteria", NoneStr) = RelevantPortfolio
         THEN LocateFirstPortfolios(Tail(portfolios),
                  IF relevant_portfolio = <<>> THEN <<portfolio>> ELSE relevant_portfolio,
                  error_portfolio)
         ELSE IF Contains(ErrorNeedle, Get(portfolio, "criteria", <<>>))
         THEN LocateFirstPortfolios(Tail(portfolios), relevant_portfolio,
                  IF error_portfolio = <<>> THEN <<portfolio>> ELSE error_portfolio)
         ELSE LocateFirstPortfolios(Tail(portfolios), relevant_portfolio, error_portfolio)

\* the scan of the portfolio list: each assignment overwrites the previous
\* one; an absent entry is <<>>, a located entry p is <<p>>
RECURSIVE LocatePortfolios(_, _, _)
LocatePortfolios(portfolios, relevant_portfolio, error_portfolio) ==
    IF portfolios = <<>> THEN [relevant |-> relevant_portfolio, error |-> error_portfolio]
    ELSE LET portfolio == Head(portfolios) IN
         IF Get(portfolio, "criteria", NoneStr) = RelevantPortfolio
         THEN LocatePortfolios(Tail(portfolios), <<portfolio>>, error_portfolio)
         ELSE IF Contains(ErrorNeedle, Get(portfolio, "criteria", <<>>))
         THEN LocatePortfolios(Tail(portfolios), relevant_portfolio, <<portfolio>>)
         ELSE LocatePortfolios(Tail(portfolios), relevant_portfolio, error_portfolio)

\* variant: the threshold itself already counts as exceeded
DelinquentExceededInclusive(portfolio) == Get(portfolio, "delinquent_amount", 0) >= DelinquentThreshold

\* relevant_portfolio.get('delinquent_amount', 0) > 500000
DelinquentExceeded(portfolio) == Get(portfolio, "delinquent_amount", 0) > DelinquentThreshold

\* error_portfolio.get('no_of_contracts', 0) > 0
HasErrorContracts(portfolio) == Get(portfolio, "no_of_contracts", 0) > 0

DelinquentText(delinquent_amount) ==
    "It has been observed that there is a considerable increase in delinquent amount (EUR "
    \o FormatMoney(delinquent_amount)
    \o ") and change in the NBV of the relevant portfolio compared to the previous month. Can you please provide additional information on this?"

ErrorsText(no_of_contracts) ==
    "There are " \o IntToStr(no_of_contracts)
    \o " contracts in the Error portfolio with negative amounts detected. Please explain the nature of these errors and your remediation plan."

DelinquentQuestion(relevant_portfolio, now) ==
    Question("overview_delinquent_" \o Timestamp(now),
             "Overview", "critical",
             DelinquentText(relevant_portfolio["delinquent_amount"]),
             "Significant delinquent amount increase detected in portfolio analysis",
             "text",
             <<"min_length:75", "requires_explanation", "requires_timeline">>,
             [delinquent_amount |-> relevant_portfolio["delinquent_amount"],
              portfolio_data |-> relevant_portfolio,
              threshold_exceeded |-> TRUE],
             NoFollowUps, 1, 95)

\* variant: the clock reading is also written into the context
ErrorsQuestionStamped(error_portfolio, now) ==
    Question("overview_errors_" \o Timestamp(now),
             "Overview", "high",
             ErrorsText(error_portfolio["no_of_contracts"]),
             "Error contracts detected at " \o Timestamp(now),
             "text",
             <<"min_length:50", "requires_action_plan">>,
             [error_contracts |-> error_portfolio["no_of_contracts"],
              error_amount |-> Get(error_portfolio, "net_book_value", 0),
              portfolio_data |-> error_portfolio],
             NoFollowUps, 2, 90)

ErrorsQuestion(error_portfolio, now) ==
    Question("overview_errors_" \o Timestamp(now),
             "Overview", "high",
             ErrorsText(error_portfolio["no_of_contracts"]),
             "Error contracts with negative amounts detected in portfolio overview",
             "text",
             <<"min_length:50", "requires_action_plan">>,
             [error_contracts |-> error_portfolio["no_of_contracts"],
              error_amount |-> Get(error_portfolio, "net_book_value", 0),
              portfolio_data |-> error_portfolio],
             NoFollowUps, 2, 90)

generate_overview_questions(data, now) ==
    LET overview == Get(data, "overview", <<>>)
        portfolios == Get(overview, "portfolios", <<>>)
        located == LocatePortfolios(portfolios, <<>>, <<>>)
        relevant_portfolio == located.relevant
        error_portfolio == located.error
    IN  (IF relevant_portfolio # <<>> /\ DelinquentExceeded(relevant_portfolio[1])
         THEN <<DelinquentQuestion(relevant_portfolio[1], now)>> ELSE <<>>)
        \o
        (IF error_portfolio # <<>> /\ HasErrorContracts(error_portfolio[1])
         THEN <<ErrorsQuestion(error_portfolio[1], now)>> ELSE <<>>)

----------------------------------------------------------------------------
(* generate_additional_info_questions *)

\* count > 10
IsSignificant(count) == count > SignificantThreshold

\* variant: 50 itself already counts as high impact
IsHighImpactInclusive(count) == count >= HighImpactThreshold

\* count > 50
IsHighImpact(count) == count > HighImpactThreshold

\* f"{change_type}: {count}"
ChangeLabel(change) == change[1] \o ": " \o IntToStr(change[2])

\* '; '.join(items)
RECURSIVE Join(_)
Join(items) ==
    IF items = <<>> THEN ""
    ELSE IF Len(items) = 1 THEN items[1]
    ELSE items[1] \o "; " \o Join(Tail(items))

\* variant: every item is listed
FirstFiveUncut(items) == items

\* list(d.items())[:5]
FirstFive(items) == SubSeq(items, 1, IF Len(items) < 5 THEN Len(items) ELSE 5)

ChangeCount(change) == change[2]
ChangeKey(change) == change[1]

ChangesQuestion(significant_changes, high_impact_changes, now) ==
    Question("additional_changes_" \o Timestamp(now),
             "Additional Information",
             IF high_impact_changes # <<>> THEN "high" ELSE "medium",
             "You'll find the list of contracts in the \"Additional Information\" sheet of the DQ report. Can you please provide clarifications on the changes highlighted: "
                 \o Join(MapSeq(ChangeLabel, FirstFive(significant_changes))),
             "Significant data changes detected in multiple categories",
             "structured",
             <<"requires_explanations_per_category", "min_length:100">>,
             [significant_changes |-> significant_changes,
              total_changes |-> SumSeq(MapSeq(ChangeCount, significant_changes)),
              high_impact_changes |-> high_impact_changes,
              change_categories |-> MapSeq(ChangeKey, significant_changes)],
             <<"What business processes or system changes caused these modifications?",
               "Are these changes permanent or temporary adjustments?",
               "What controls are in place to validate these changes?">>,
             3, 85)

generate_additional_info_questions(data, now) ==
    LET additional_info == Get(data, "additional_info", <<>>)
        changes == Get(additional_info, "changes", <<>>)
        sig(change) == IsSignificant(change[2])
        high(change) == IsHighImpact(change[2])
        significant_changes == SelectSeq(changes, sig)
        high_impact_changes == MapSeq(ChangeLabel, SelectSeq(significant_changes, high))
    IN  IF significant_changes # <<>>
        THEN <<ChangesQuestion(significant_changes, high_impact_changes, now)>>
        ELSE <<>>

----------------------------------------------------------------------------
(* generate_writeoff_questions *)

\* flags.get('has_new_writeoffs') or any(w.get('net_loss_amount', 0) > 0 for w in writeoff_data)
WriteoffTriggered(flags, writeoff_data) ==
    \/ Get(flags, "has_new_writeoffs", FALSE)
    \/ \E i \in 1..Len(writeoff_data) : Get(writeoff_data[i], "net_loss_amount", 0) > 0

\* writeoff.get('criteria') in ['Converted Portfolio', 'Relevant Portfolio']
IsMainWriteoff(writeoff) ==
    Get(writeoff, "criteria", NoneStr) \in {ConvertedPortfolio, RelevantPortfolio}

WriteoffText(net_loss) ==
    "Can you please check and provide additional information on the net loss amount (EUR "
    \o FormatMoney(net_loss)
    \o ") and confirm the writeoff analysis? You'll find it in the 'Writeoff' sheet of the DQ report."

WriteoffQuestion(writeoff, flags, now) ==
    LET net_loss == Get(writeoff, "net_loss_amount", 0) IN
    Question("writeoffs_analysis_" \o Timestamp(now),
             "Writeoffs", "medium",
             WriteoffText(net_loss),
             "Writeoff amounts require verification and explanation",
             "text",
             <<"min_length:50", "requires_confirmation">>,
             [net_loss_amount |-> net_loss,
              writeoff_criteria |-> Get(writeoff, "criteria", NoneStr),
              new_writeoffs_present |-> Get(flags, "has_new_writeoffs", FALSE),
              writeoff_data |-> writeoff],
             NoFollowUps, 4, 80)

\* variant: the loop without its break keeps the last entry that matches
RECURSIVE LastMainWriteoff(_)
LastMainWriteoff(writeoff_data) ==
    IF writeoff_data = <<>> THEN <<>>
    ELSE IF IsMainWriteoff(writeoff_data[Len(writeoff_data)])
         THEN <<writeoff_data[Len(writeoff_data)]>>
    ELSE LastMainWriteoff(SubSeq(writeoff_data, 1, Len(writeoff_data) - 1))

\* the for loop with its break: the first entry that matches, if any
RECURSIVE FirstMainWriteoff(_)
FirstMainWriteoff(writeoff_data) ==
    IF writeoff_data = <<>> THEN <<>>
    ELSE IF IsMainWriteoff(Head(writeoff_data)) THEN <<Head(writeoff_data)>>
    ELSE FirstMainWriteoff(Tail(writeoff_data))

generate_writeoff_questions(data, now) ==
    LET writeoffs == Get(data, "writeoffs", <<>>)
        writeoff_data == Get(writeoffs, "writeoffs", <<>>)
        flags == Get(writeoffs, "flags", <<>>)
        main == FirstMainWriteoff(writeoff_data)
    IN  IF WriteoffTriggered(flags, writeoff_data) /\ main # <<>>
        THEN <<WriteoffQuestion(main[1], flags, now)>>
        ELSE <<>>

----------------------------------------------------------------------------
(* generate_error_warning_questions *)

\* variant: every warning is a rule warning
IsAnyWarning(w) == TRUE

\* variant: the description is searched without lower-casing it
IsRuleWarningCaseSensitive(w) == Contains(ConfirmNeedle, Get(w, "description", <<>>))

\* 'confirm' in w.get('description', '').lower()
IsRuleWarning(w) == Contains(ConfirmNeedle, Lower(Get(w, "description", <<>>)))

WarningContracts(w) == Get(w, "contracts", 0)
WarningDescription(w) == Get(w, "description", NoneStr)

WarningsText(total_contracts) ==
    "Can you please provide additional information for the warnings: "
    \o IntToStr(total_contracts)
    \o " contracts with rule confirmation issues. What specific business rules are failing and what is your remediation plan?"

WarningsQuestion(rule_warnings, now) ==
    LET total_contracts == SumSeq(MapSeq(WarningContracts, rule_warnings)) IN
    Question("warnings_rules_" \o Timestamp(now),
             "Warnings", "medium",
             WarningsText(total_contracts),
             "Rule confirmation warnings detected requiring business explanation",
             "structured",
             <<"requires_detailed_breakdown", "requires_remediation_plan">>,
             [warning_contracts |-> total_contracts,
              rule_warnings |-> rule_warnings,
              warning_types |-> MapSeq(WarningDescription, rule_warnings)],
             NoFollowUps, 5, 75)

generate_error_warning_questions(data, now) ==
    LET warnings == Get(data, "warnings", <<>>)
        warning_data == Get(warnings, "warnings", <<>>)
        rule_warnings == SelectSeq(warning_data, IsRuleWarning)
    IN  IF rule_warnings # <<>> THEN <<WarningsQuestion(rule_warnings, now)>> ELSE <<>>


----------------------------------------------------------------------------
(* generate_questionnaire (rules engine) *)

\* variant: within one priority the later section sorts first
SortKeySequenceDescending(q) == <<PriorityRank(q.priority), 0 - q.order_sequence>>

\* key=lambda x: (priority_order.get(x.priority, 3), x.order_sequence)
SortKey(q) == <<PriorityRank(q.priority), q.order_sequence>>

\* tuple comparison a < b of two sort keys
KeyLess(a, b) == a[1] < b[1] \/ (a[1] = b[1] /\ a[2] < b[2])

\* q placed behind every element whose key is not greater (stable)
RECURSIVE InsertSorted(_, _)
InsertSorted(sorted, q) ==
    IF sorted = <<>> THEN <<q>>
    ELSE IF KeyLess(SortKey(q), SortKey(Head(sorted))) THEN <<q>> \o sorted
    ELSE <<Head(sorted)>> \o InsertSorted(Tail(sorted), q)

\* questions.sort(key=...): a stable sort by SortKey
RECURSIVE SortQuestions(_)
SortQuestions(qs) ==
    IF qs = <<>> THEN <<>>
    ELSE InsertSorted(SortQuestions(SubSeq(qs, 1, Len(qs) - 1)), qs[Len(qs)])

\* variant: the renumbering starts at 0
RenumberFromZero(qs) == [i \in 1..Len(qs) |-> [qs[i] EXCEPT !.order_sequence = i - 1]]

\* variant: the renumbering also resets the confidence score
RenumberResettingConfidence(qs) ==
    [i \in 1..Len(qs) |-> [qs[i] EXCEPT !.order_sequence = i, !.confidence_score = 0]]

\* for i, question in enumerate(questions): question.order_sequence = i + 1
Renumber(qs) == [i \in 1..Len(qs) |-> [qs[i] EXCEPT !.order_sequence = i]]

\* the four rules in section order
CollectQuestions(data, now) ==
    generate_overview_questions(data, now)
    \o generate_additional_info_questions(data, now)
    \o generate_writeoff_questions(data, now)
    \o generate_error_warning_questions(data, now)

\* variant: the questions at priority p or at "critical"
CountPriorityOrAbove(qs, p) ==
    Cardinality({i \in 1..Len(qs) : qs[i].priority \in {p, "critical"}})

\* len([q for q in questions if q.priority == p])
CountPriority(qs, p) == Cardinality({i \in 1..Len(qs) : qs[i].priority = p})

\* set(q.category for q in questions)
CategorySet(qs) == {qs[i].category : i \in 1..Len(qs)}

\* list(s) of a set s: its elements, each once, in an order the set decides
ListsOf(s) == {l \in [1..Cardinality(s) -> s] : {l[i] : i \in 1..Len(l)} = s}

\* variant: only "critical" counts
AnyCriticalStrict(qs) == \E i \in 1..Len(qs) : qs[i].priority = "critical"

\* any(q.priority in ["critical", "high"] for q in questions)
AnyCriticalOrHigh(qs) == \E i \in 1..Len(qs) : qs[i].priority \in {"critical", "high"}

RulesSummary(qs, categories) ==
    [total_questions |-> Len(qs),
     high_priority |-> CountPriority(qs, "high"),
     critical_priority |-> CountPriority(qs, "critical"),
     categories |-> categories,
     requires_immediate_attention |-> AnyCriticalOrHigh(qs)]

\* the sorted and renumbered list
FinalizedQuestions(data, now) == Renumber(SortQuestions(CollectQuestions(data, now)))

\* QuestionGenerationResponse without its question list
ResponseHeader(data, country, summary) ==
    [country |-> country,
     entity |-> Get(Get(data, "metadata", <<>>), "delivering_entity_name", "Unknown"),
     report_date |-> Get(Get(data, "metadata", <<>>), "reporting_date", ""),
     summary |-> summary]

----------------------------------------------------------------------------
(* Exact arithmetic for the risk score: a number is <<numerator,           *)
(* denominator>> in lowest terms with a positive denominator.              *)

RECURSIVE Gcd(_, _)
Gcd(a, b) == IF b = 0 THEN a ELSE Gcd(b, a % b)

Abs(n) == IF n < 0 THEN 0 - n ELSE n

\* n / d for d > 0
Rat(n, d) == LET g == Gcd(Abs(n), d) IN <<n \div g, d \div g>>

Lcm(a, b) == (a \div Gcd(a, b)) * b

RatAdd(x, y) ==
    LET l == Lcm(x[2], y[2]) IN Rat(x[1] * (l \div x[2]) + y[1] * (l \div y[2]), l)

\* x <= y, compared over the common denominator
RatLeq(x, y) ==
    LET l == Lcm(x[2], y[2]) IN x[1] * (l \div x[2]) <= y[1] * (l \div y[2])

\* min(x, y)
RatMin(x, y) == IF RatLeq(x, y) THEN x ELSE y

\* x / n for an integer n > 0
RatDivInt(x, n) == Rat(x[1], x[2] * n)

RECURSIVE RatSum(_)
RatSum(xs) == IF xs = <<>> THEN <<0, 1>> ELSE RatAdd(Head(xs), RatSum(Tail(xs)))

----------------------------------------------------------------------------
(* calculate_risk_score; the amounts of report_data are whole currency units *)

MaxComponent == 10
RiskDelinquentThreshold == 500000
RiskChangesThreshold == 200

\* the loop over the portfolios: the three running totals
RECURSIVE PortfolioTotals(_, _)
PortfolioTotals(portfolios, acc) ==
    IF portfolios = <<>> THEN acc
    ELSE LET portfolio == Head(portfolios)
             contracts == Get(portfolio, "no_of_contracts", 0)
         IN  PortfolioTotals(Tail(portfolios),
                [error_contracts |-> acc.error_contracts +
                    (IF Contains(ErrorNeedle, Get(portfolio, "criteria", <<>>))
                     THEN contracts ELSE 0),
                 total_contracts |-> acc.total_contracts + contracts,
                 total_delinquent |-> acc.total_delinquent +
                    Get(portfolio, "delinquent_amount", 0)])

\* min((error_contracts / total_contracts) * 100 * 2, 10)
ErrorRateComponent(error_contracts, total_contracts) ==
    RatMin(Rat(error_contracts * 200, total_contracts), <<MaxComponent, 1>>)

\* min((total_delinquent / 1000000) * 5, 10)
DelinquencyComponent(total_delinquent) ==
    RatMin(Rat(total_delinquent * 5, 1000000), <<MaxComponent, 1>>)

\* min(total_changes / 100, 10)
ChangeComponent(total_changes) == RatMin(Rat(total_changes, 100), <<MaxComponent, 1>>)

\* variant: every component enters the mean, a skipped one as 0
MeanOfThree(score_components) == RatDivInt(RatSum(score_components), 3)

\* sum(score_components) / len(score_components)
Mean(score_components) == RatDivInt(RatSum(score_components), Len(score_components))

calculate_risk_score(report_data) ==
    LET overview == Get(report_data, "overview", <<>>)
        portfolios == Get(overview, "portfolios", <<>>)
        totals == PortfolioTotals(portfolios,
                      [error_contracts |-> 0, total_contracts |-> 0, total_delinquent |-> 0])
        additional_info == Get(report_data, "additional_info", <<>>)
        total_changes == Get(Get(additional_info, "summary", <<>>), "total_changes", 0)
        score_components ==
            (IF totals.total_contracts > 0
             THEN <<ErrorRateComponent(totals.error_contracts, totals.total_contracts)>>
             ELSE <<>>)
            \o (IF totals.total_delinquent > RiskDelinquentThreshold
                THEN <<DelinquencyComponent(totals.total_delinquent)>> ELSE <<>>)
            \o (IF total_changes > RiskChangesThreshold
                THEN <<ChangeComponent(total_changes)>> ELSE <<>>)
    IN  IF score_components # <<>> THEN Mean(score_components) ELSE <<0, 1>>

----------------------------------------------------------------------------
(* analyze_dq_report; the amounts of report_data are whole currency units *)

AttentionThreshold == 7
HighRiskScore == 8
MediumRiskScore == 5
InsightDelinquentThreshold == 500000
PatternThreshold == 100
AnalysisConfidence == 89

UnknownCriteria == <<"U","n","k","n","o","w","n">>

\* get_risk_level: score >= 8 is high, score >= 5 is medium, anything else low
get_risk_level(score) ==
    IF RatLeq(<<HighRiskScore, 1>>, score) THEN "high"
    ELSE IF RatLeq(<<MediumRiskScore, 1>>, score) THEN "medium"
    ELSE "low"

\* variant: attention only above 9
RequiresAttentionAboveNine(risk_score) == ~RatLeq(risk_score, <<AttentionThreshold + 2, 1>>)

\* risk_score > 7.0
RequiresAttention(risk_score) == ~RatLeq(risk_score, <<AttentionThreshold, 1>>)

\* d.get(key, default) of a dict held as a list of <<key, value>> pairs
RECURSIVE ItemGet(_, _, _)
ItemGet(items, key, default) ==
    IF items = <<>> THEN default
    ELSE IF Head(items)[1] = key THEN Head(items)[2]
    ELSE ItemGet(Tail(items), key, default)

\* max(d.items(), key=lambda x: x[1]): the first item with the largest value
RECURSIVE MaxItem(_)
MaxItem(items) ==
    IF Len(items) = 1 THEN items[1]
    ELSE LET rest == MaxItem(SubSeq(items, 1, Len(items) - 1)) IN
         IF items[Len(items)][2] > rest[2] THEN items[Len(items)] ELSE rest

\* the delinquency insight of one portfolio, if its amount is above 500000
DelinquencyInsight(portfolio) ==
    IF Get(portfolio, "delinquent_amount", 0) > InsightDelinquentThreshold
    THEN <<[insight |-> "High delinquency detected",
            amount |-> portfolio["delinquent_amount"],
            criteria |-> Get(portfolio, "criteria", UnknownCriteria)]>>
    ELSE <<>>

RECURSIVE DelinquencyInsights(_)
DelinquencyInsights(portfolios) ==
    IF portfolios = <<>> THEN <<>>
    ELSE DelinquencyInsight(Head(portfolios)) \o DelinquencyInsights(Tail(portfolios))

\* each insight is held as the fixed part of its sentence and the values put into it
extract_key_insights(report_data) ==
    LET overview == Get(report_data, "overview", <<>>)
        errors == Get(report_data, "errors", <<>>)
        total_error_contracts == Get(Get(errors, "summary", <<>>), "total_error_contracts", 0)
        additional_info == Get(report_data, "additional_info", <<>>)
        high_impact_changes == Get(Get(additional_info, "categories", <<>>), "high_impact", <<>>)
    IN  DelinquencyInsights(Get(overview, "portfolios", <<>>))
        \o (IF total_error_contracts > 0
            THEN <<[insight |-> "Data quality issues", contracts |-> total_error_contracts]>>
            ELSE <<>>)
        \o (IF high_impact_changes # <<>>
            THEN <<[insight |-> "High change volume",
                    changes |-> MaxItem(high_impact_changes)[2],
                    category |-> MaxItem(high_impact_changes)[1]]>>
            ELSE <<>>)

identify_patterns(report_data) ==
    LET additional_info == Get(report_data, "additional_info", <<>>)
        changes == Get(additional_info, "changes", <<>>)
    IN  (IF ItemGet(changes, "Changes in Contract End Date", 0) > PatternThreshold
         THEN <<"High volume of contract end date changes suggests termination pattern">>
         ELSE <<>>)
        \o (IF ItemGet(changes, "Changes in Rating", 0) > PatternThreshold
            THEN <<"Significant rating updates indicate credit risk reassessment">>
            ELSE <<>>)

\* the two numbers the summary sentence is built from
generate_summary(report_data) ==
    LET summary_data == Get(Get(report_data, "overview", <<>>), "summary", <<>>) IN
    [total_contracts |-> Get(summary_data, "total_contracts", 0),
     delinquent_amount |-> Get(summary_data, "total_delinquent_amount", 0)]

generate_recommendations(report_data) ==
    LET risk_score == calculate_risk_score(report_data)
        additional_info == Get(report_data, "additional_info", <<>>)
        errors == Get(report_data, "errors", <<>>)
    IN  (IF ~RatLeq(risk_score, <<AttentionThreshold, 1>>)
         THEN <<"Immediate escalation to senior management required",
                "Implement enhanced monitoring for delinquent accounts">>
         ELSE <<>>)
        \o (IF Get(Get(additional_info, "summary", <<>>), "total_changes", 0) > RiskChangesThreshold
            THEN <<"Review change management processes and controls",
                   "Validate data integrity after high change volume">>
            ELSE <<>>)
        \o (IF Get(Get(errors, "summary", <<>>), "negative_amount_issues", 0) > 0
            THEN <<"Investigate and correct negative amount calculations">>
            ELSE <<>>)

analyze_dq_report(report_data) ==
    LET risk_score == calculate_risk_score(report_data) IN
    [risk_score |-> risk_score,
     risk_level |-> get_risk_level(risk_score),
     key_insights |-> extract_key_insights(report_data),
     patterns_identified |-> identify_patterns(report_data),
     requires_attention |-> RequiresAttention(risk_score),
     summary |-> generate_summary(report_data),
     recommendations |-> generate_recommendations(report_data),
     confidence |-> AnalysisConfidence]

----------------------------------------------------------------------------
(* fetch_country_metrics (function_app.py) *)

\* variant: the day is appended to every month token
NormalizeMonthAlways(month) == month \o "-01"

\* if len(month) == 7: month = f"{month}-01"
NormalizeMonth(month) == IF Len(month) = 7 THEN month \o "-01" ELSE month

\* the filters sent to the metrics store
FetchFilters(country, month) ==
    [country_code |-> "eq." \o country,
     reporting_month |-> "eq." \o NormalizeMonth(month)]

\* the call: store is what the metrics store does with the request
fetch_country_metrics(country, month, store) ==
    [raised |-> store.raised, rows |-> store.rows, filters |-> FetchFilters(country, month)]

----------------------------------------------------------------------------
(* generate_ai_questions (function_app.py)                                 *)
(* The text returned by the AI is a sequence of tokens: "[", "]", ",",     *)
(* a JSON object (its value is the parsed dict) and any other text.        *)

TokOpen == [t |-> "["]
TokClose == [t |-> "]"]
TokComma == [t |-> ","]
TokText == [t |-> "text"]
TokObject(v) == [t |-> "object", v |-> v]

\* ai_response.find('['): 0-based position of the first "[", -1 if none
FindOpen(text) ==
    IF \E i \in 1..Len(text) : text[i].t = "["
    THEN MinOf({i \in 1..Len(text) : text[i].t = "["}) - 1
    ELSE -1

\* ai_response.rfind(']'): 0-based position of the last "]", -1 if none
RFindClose(text) ==
    IF \E i \in 1..Len(text) : text[i].t = "]"
    THEN MaxOf({i \in 1..Len(text) : text[i].t = "]"}) - 1
    ELSE -1

\* objects separated by commas: [ok |-> TRUE, items |-> the objects], or ok FALSE
RECURSIVE JsonElements(_)
JsonElements(text) ==
    IF Len(text) = 1 /\ text[1].t = "object" THEN [ok |-> TRUE, items |-> <<text[1].v>>]
    ELSE IF Len(text) >= 3 /\ text[1].t = "object" /\ text[2].t = ","
    THEN LET rest == JsonElements(SubSeq(text, 3, Len(text))) IN
         [ok |-> rest.ok, items |-> <<text[1].v>> \o rest.items]
    ELSE [ok |-> FALSE, items |-> <<>>]

\* json.loads(text): kind "array" with its items, kind "object", or kind
\* "error" for json.JSONDecodeError
JsonLoads(text) ==
    IF Len(text) = 1 /\ text[1].t = "object" THEN [kind |-> "object", items |-> <<text[1].v>>]
    ELSE IF Len(text) >= 2 /\ text[1].t = "[" /\ text[Len(text)].t = "]"
    THEN IF Len(text) = 2 THEN [kind |-> "array", items |-> <<>>]
         ELSE LET elements == JsonElements(SubSeq(text, 2, Len(text) - 1)) IN
              IF elements.ok THEN [kind |-> "array", items |-> elements.items]
              ELSE [kind |-> "error", items |-> <<>>]
    ELSE [kind |-> "error", items |-> <<>>]

\* the extraction of the JSON array from the AI text
ExtractQuestionsData(ai_response) ==
    LET start_idx == FindOpen(ai_response)
        end_idx == RFindClose(ai_response) + 1
    IN  IF start_idx >= 0 /\ end_idx > start_idx
        THEN JsonLoads(SubSeq(ai_response, start_idx + 1, end_idx))
        ELSE JsonLoads(ai_response)

\* QuestionPriority(value) raises ValueError for any other value
ValidPriorities == {"low", "medium", "high", "critical"}

\* Question(...) of one parsed object at 0-based position i
AiQuestion(q_data, i) ==
    Question(Get(q_data, "id", "q" \o NatToStr(i + 1)),
             Get(q_data, "category", "General"),
             Get(q_data, "priority", "high"),
             Get(q_data, "question_text", ""),
             Get(q_data, "context", ""),
             Get(q_data, "expected_response_type", "text"),
             <<>>,
             Get(q_data, "related_data", <<>>),
             NoFollowUps, i + 1, 85)

\* for i, q_data in enumerate(questions_data): ... questions.append(question)
AiQuestions(items) == [i \in 1..Len(items) |-> AiQuestion(items[i], i - 1)]

\* the result of generate_ai_questions: the questions, or the exception it
\* re-raises; client is "None" when no client could be built, completion is
\* what the chat completion call does
generate_ai_questions(client, completion) ==
    IF client = "None" THEN [raised |-> TRUE, ai_calls |-> 0, questions |-> <<>>]
    ELSE IF completion.raised THEN [raised |-> TRUE, ai_calls |-> 1, questions |-> <<>>]
    ELSE LET questions_data == ExtractQuestionsData(completion.content) IN
         IF questions_data.kind = "error"
         THEN [raised |-> TRUE, ai_calls |-> 1, questions |-> <<>>]
         ELSE IF questions_data.kind = "object"
         THEN \* the loop runs over the keys of the dict: q_data.get fails on the first
              [raised |-> DOMAIN questions_data.items[1] # {}, ai_calls |-> 1, questions |-> <<>>]
         ELSE IF \E i \in 1..Len(questions_data.items) :
                    Get(questions_data.items[i], "priority", "high") \notin ValidPriorities
         THEN [raised |-> TRUE, ai_calls |-> 1, questions |-> <<>>]
         ELSE [raised |-> FALSE, ai_calls |-> 1, questions |-> AiQuestions(questions_data.items)]

----------------------------------------------------------------------------
(* generate_questionnaire, the questionnaire/generate endpoint (function_app.py) *)

\* any(q.priority == QuestionPriority.CRITICAL for q in questions)
AnyCritical(qs) == \E i \in 1..Len(qs) : qs[i].priority = "critical"

EndpointSummary(qs, categories, metrics) ==
    [total_questions |-> Len(qs),
     high_priority |-> CountPriority(qs, "high"),
     critical_priority |-> CountPriority(qs, "critical"),
     categories |-> categories,
     requires_immediate_attention |-> AnyCritical(qs),
     data_points_analyzed |-> Len(metrics)]

\* an HTTP response together with what the handler did on the way
HttpResult(status_code, body, fetches, ai_calls) ==
    [status_code |-> status_code, body |-> body, fetches |-> fetches, ai_calls |-> ai_calls]

\* what a handler did with its event loops
EventLoops(created, closed) == [loops_created |-> created, loops_closed |-> closed]

\* loop = asyncio.new_event_loop(); try: loop.run_until_complete(...) finally: loop.close()
\* a loop is created for each fetch and closed on both ways out of the try
WithLoopClosedInFinally(response) ==
    response @@ EventLoops(Len(response.fetches), Len(response.fetches))

\* loop = asyncio.new_event_loop(); loop.run_until_complete(...); loop.close()
\* the close is reached only when the fetch returns
WithLoopClosedAfterFetch(response, raised) ==
    response @@ EventLoops(1, IF raised THEN 0 ELSE 1)

\* ApiResponse(success=..., data=..., message=..., timestamp=...); error stays None
ApiResponse(success, data, message, now) ==
    [success |-> success, data |-> data, error |-> NoneStr, message |-> message,
     timestamp |-> Timestamp(now)]

\* the request passes the checks made before the data fetch
RequestAccepted(request) ==
    /\ request.json = "valid"
    /\ request.body # <<>>
    /\ Get(request.body, "country", "") # ""
    /\ Get(request.body, "month", "") # ""

\* the question list the handler obtains (empty on every path that ends early)
EndpointQuestions(env) ==
    IF RequestAccepted(env.request) /\ ~env.metrics.raised /\ env.metrics.rows # <<>>
    THEN generate_ai_questions(env.client, env.completion).questions
    ELSE <<>>

\* the handler for one request; env holds the request and what the outside
\* world answers to the handler's calls: request, metrics, client, completion
generate_questionnaire_endpoint(env, categories) ==
    WithLoopClosedInFinally(
    IF env.request.json # "valid"
    THEN HttpResult(500, [error |-> "Failed to generate questionnaire"], <<>>, 0)
    ELSE IF env.request.body = <<>>
    THEN HttpResult(400, [error |-> "Request body required"], <<>>, 0)
    ELSE IF ~RequestAccepted(env.request)
    THEN HttpResult(400, [error |-> "Country and month are required"], <<>>, 0)
    ELSE LET country == env.request.body["country"]
             month == env.request.body["month"]
             filters == <<FetchFilters(country, month)>>
             ai == generate_ai_questions(env.client, env.completion)
         IN
         IF env.metrics.raised
         THEN HttpResult(500, [error |-> "Failed to generate questionnaire"], filters, 0)
         ELSE IF env.metrics.rows = <<>>
         THEN HttpResult(404, [error |-> "No metrics found"], filters, 0)
         ELSE IF ai.raised
         THEN HttpResult(500, [error |-> "Failed to generate questionnaire"], filters, ai.ai_calls)
         ELSE HttpResult(200,
                         [country |-> country,
                          entity |-> "Daimler Truck FS",
                          report_date |-> month,
                          summary |-> EndpointSummary(ai.questions, categories, env.metrics.rows)],
                         filters, ai.ai_calls))

----------------------------------------------------------------------------
(* validate_response (questionnaire_generator.py); scores in hundredths *)

MinFallbackLength == 50
FallbackScore == 60

\* ValidationResult(is_valid=..., validation_score=..., issues=..., suggestions=...)
\* together with the number of calls made to the scoring service
Validation(is_valid, validation_score, issues, suggestions, service_calls) ==
    [is_valid |-> is_valid, validation_score |-> validation_score, issues |-> issues,
     suggestions |-> suggestions, service_calls |-> service_calls]

\* ValidationResult(**validation_result) can be built: all four fields given
ValidationFields == {"is_valid", "validation_score", "issues", "suggestions"}
BuildsValidationResult(validation_result) == ValidationFields \subseteq DOMAIN validation_result

\* variant: the text must be longer than the minimum
FallbackValidExclusive(response_text) == Len(response_text) > MinFallbackLength

\* len(request.response_text) >= 50
FallbackValid(response_text) == Len(response_text) >= MinFallbackLength

\* variant: only an absent text is missing, an empty one is scored
TextMissingOnlyAbsent(request) == "response_text" \notin DOMAIN request

\* not request.response_text
TextMissing(request) == Get(request, "response_text", "") = ""

\* openai_service is what the scoring call does: it raises, or it returns value
validate_response(request, openai_service) ==
    IF TextMissing(request)
    THEN Validation(FALSE, 0, <<"Response text is required">>,
                    <<"Please provide a detailed response">>, 0)
    ELSE IF openai_service.raised \/ ~BuildsValidationResult(openai_service.value)
    THEN Validation(FallbackValid(request["response_text"]), FallbackScore,
                    <<"AI validation temporarily unavailable">>,
                    <<"Please ensure response is complete and detailed">>, 1)
    ELSE Validation(openai_service.value["is_valid"], openai_service.value["validation_score"],
                    openai_service.value["issues"], openai_service.value["suggestions"], 1)

----------------------------------------------------------------------------
(* submit_response, the questionnaire/{questionnaire_id}/response endpoint *)

MockValidationScore == 85

ConfidenceLevels == {"high", "medium", "low"}

\* ResponseSubmissionRequest(**req_body) can be built
BuildsSubmissionRequest(req_body) ==
    /\ {"question_id", "confidence_level", "submitted_by"} \subseteq DOMAIN req_body
    /\ req_body["confidence_level"] \in ConfidenceLevels

\* mock_validation.model_dump()
MockValidation ==
    [is_valid |-> TRUE, validation_score |-> MockValidationScore, issues |-> <<>>,
     suggestions |-> <<"Consider adding more specific timeline information">>]

submit_response(questionnaire_id, request, now) ==
    IF request.json # "valid"
    THEN HttpResult(500, [error |-> "Failed to submit response"], <<>>, 0)
    ELSE IF request.body = <<>>
    THEN HttpResult(400, [error |-> "Request body required"], <<>>, 0)
    ELSE IF ~BuildsSubmissionRequest(request.body)
    THEN HttpResult(500, [error |-> "Failed to submit response"], <<>>, 0)
    ELSE HttpResult(200,
                    ApiResponse(TRUE,
                                [response_id |-> "resp_" \o questionnaire_id \o "_"
                                                 \o request.body["question_id"],
                                 validation |-> MockValidation,
                                 status |-> "completed"],
                                "Response submitted successfully", now),
                    <<>>, 0)

----------------------------------------------------------------------------
(* generate_chat_response (function_app.py)                                *)
(* The AI text is a sequence of tokens: a complete JSON object, a lone     *)
(* opening or closing brace, a code fence with or without the json tag,    *)
(* white space, and any other text.                                        *)

TokLBrace == [t |-> "{"]
TokRBrace == [t |-> "}"]
TokFenceJson == [t |-> "fence_json"]
TokFence == [t |-> "fence"]
TokSpace == [t |-> " "]

\* text.strip() on tokens: white space removed at both ends
RECURSIVE StripTokens(_)
StripTokens(text) ==
    IF text # <<>> /\ Head(text).t = " " THEN StripTokens(Tail(text))
    ELSE IF text # <<>> /\ text[Len(text)].t = " " THEN StripTokens(SubSeq(text, 1, Len(text) - 1))
    ELSE text

\* the three fence removals, in the order of the code
DropFenceJson(text) == IF text # <<>> /\ Head(text).t = "fence_json" THEN Tail(text) ELSE text
DropFenceOpen(text) == IF text # <<>> /\ Head(text).t = "fence" THEN Tail(text) ELSE text
DropFenceClose(text) ==
    IF text # <<>> /\ text[Len(text)].t = "fence" THEN SubSeq(text, 1, Len(text) - 1) ELSE text

CleanResponse(ai_response_text) ==
    DropFenceClose(DropFenceOpen(DropFenceJson(StripTokens(ai_response_text))))

\* cleaned_response.find of the opening brace: 0-based position, -1 if none
FindBrace(text) ==
    IF \E i \in 1..Len(text) : text[i].t \in {"{", "object"}
    THEN MinOf({i \in 1..Len(text) : text[i].t \in {"{", "object"}}) - 1
    ELSE -1

\* cleaned_response.rfind of the closing brace: 0-based position, -1 if none
RFindBrace(text) ==
    IF \E i \in 1..Len(text) : text[i].t \in {"}", "object"}
    THEN MaxOf({i \in 1..Len(text) : text[i].t \in {"}", "object"}}) - 1
    ELSE -1

\* json.loads of a span from an opening to a closing brace: the dict
\* when the span is one complete object, json.JSONDecodeError otherwise
LoadsObject(json_str) ==
    IF Len(json_str) = 1 /\ json_str[1].t = "object"
    THEN [ok |-> TRUE, value |-> json_str[1].v]
    ELSE [ok |-> FALSE, value |-> <<>>]

\* variant: any parsed object is accepted
HasSectionsAlways(structured_response) == TRUE

\* isinstance(structured_response, dict) and 'sections' in structured_response
HasSections(structured_response) == "sections" \in DOMAIN structured_response

\* the structured response built from the raw text
ChatFallback(ai_response_text) ==
    [summary |-> "Analysis completed - response formatting issue occurred",
     sections |-> <<[title |-> "Response",
                     content |-> <<[type |-> "paragraph", text |-> ai_response_text]>>]>>,
     recommendations |-> <<[action |-> "Review response formatting in backend",
                            priority |-> "medium"]>>]

\* the inner try block: the parsed object, or the fallback
StructuredResponse(ai_response_text) ==
    LET cleaned_response == CleanResponse(ai_response_text)
        json_start == FindBrace(cleaned_response)
        json_end == RFindBrace(cleaned_response) + 1
        loaded == LoadsObject(SubSeq(cleaned_response, json_start + 1, json_end))
    IN  IF json_start >= 0 /\ json_end > json_start /\ loaded.ok /\ HasSections(loaded.value)
        THEN loaded.value
        ELSE ChatFallback(ai_response_text)

\* the result of generate_chat_response: the mapping it returns, or the
\* exception it re-raises; completion.content is <<>> for None and
\* <<text>> for a text
generate_chat_response(client, completion) ==
    IF client = "None" THEN [raised |-> TRUE, ai_calls |-> 0, value |-> <<>>]
    ELSE IF completion.raised \/ completion.content = <<>>
    THEN [raised |-> TRUE, ai_calls |-> 1, value |-> <<>>]
    ELSE [raised |-> FALSE, ai_calls |-> 1, value |-> StructuredResponse(completion.content[1])]

----------------------------------------------------------------------------
(* The ai-summary, chat and generate-presentation endpoints                *)
(* (function_app.py). A request is [json, body]: body is the parsed dict,  *)
(* json tells whether req.get_json() could parse it. The answers of the    *)
(* outside world are given with the request: metrics for the data fetch,   *)
(* client for get_openai_client, thinking and completion for the calls to  *)
(* the AI. Metric rows carry numbers in every column except irr_nominal,   *)
(* which may be null.                                                      *)

\* s.strip() for the blank
RECURSIVE Strip(_)
Strip(s) ==
    IF Len(s) > 0 /\ SubSeq(s, 1, 1) = " " THEN Strip(SubSeq(s, 2, Len(s)))
    ELSE IF Len(s) > 0 /\ SubSeq(s, Len(s), Len(s)) = " " THEN Strip(SubSeq(s, 1, Len(s) - 1))
    ELSE s

\* no response at all: the exception leaves the handler
Unhandled(exception, fetches, ai_calls) ==
    [status_code |-> 0, body |-> [exception |-> exception], fetches |-> fetches,
     ai_calls |-> ai_calls]

\* generate_ai_summary: the text of the AI, or the exception it re-raises
generate_ai_summary(client, completion) ==
    IF client = "None" THEN [raised |-> TRUE, ai_calls |-> 0, value |-> <<>>]
    ELSE IF completion.raised THEN [raised |-> TRUE, ai_calls |-> 1, value |-> <<>>]
    ELSE [raised |-> FALSE, ai_calls |-> 1, value |-> completion.content]

\* not all([country, month, group_type, metric])
SummaryFieldsMissing(req_body) ==
    \E f \in {"country", "month", "group_type", "metric"} : Get(req_body, f, "") = ""

create_ai_summary(env, now) ==
    IF env.request.json # "valid"
    THEN HttpResult(500, ApiResponse(FALSE, <<>>, "Error generating AI summary", now), <<>>, 0)
    ELSE IF env.request.body = <<>>
    THEN HttpResult(400, [error |-> "Request body required"], <<>>, 0)
    ELSE IF SummaryFieldsMissing(env.request.body)
    THEN HttpResult(400, [error |-> "Country, month, group_type, and metric are required"], <<>>, 0)
    ELSE IF Get(env.request.body, "data", <<>>) = <<>>
    THEN HttpResult(400, [error |-> "Data array is required and must contain at least one record"],
                    <<>>, 0)
    ELSE LET ai == generate_ai_summary(env.client, env.completion) IN
         IF ai.raised
         THEN HttpResult(500, ApiResponse(FALSE, <<>>, "Error generating AI summary", now),
                         <<>>, ai.ai_calls)
         ELSE HttpResult(200,
                         ApiResponse(TRUE,
                                     [summary |-> ai.value,
                                      analysis_context |->
                                          [country |-> env.request.body["country"],
                                           month |-> env.request.body["month"],
                                           group_type |-> env.request.body["group_type"],
                                           metric |-> env.request.body["metric"],
                                           records_analyzed |-> Len(env.request.body["data"]),
                                           generated_at |-> Timestamp(now)]],
                                     "AI summary generated successfully", now),
                         <<>>, ai.ai_calls)

\* item.get('irr_nominal', 0) * 100 fails on a null irr_nominal; with at
\* most ten rows every row reaches such a product
IrrMissing(metrics_data) ==
    \E i \in 1..Len(metrics_data) : Get(metrics_data[i], "irr_nominal", <<0>>) = <<>>

SlideTitles ==
    <<"Portfolio Performance Report", "Executive Summary", "Portfolio Overview",
      "Performance Analysis", "Key Recommendations">>

\* generate_powerpoint_content_react: thinking is what its one AI call does
generate_powerpoint_content_react(client, thinking, metrics_data) ==
    IF client = "None" THEN [raised |-> TRUE, ai_calls |-> 0, value |-> <<>>]
    ELSE IF thinking.raised \/ IrrMissing(metrics_data)
    THEN [raised |-> TRUE, ai_calls |-> 1, value |-> <<>>]
    ELSE [raised |-> FALSE, ai_calls |-> 1,
          value |-> [react_mode |-> TRUE, workflow_type |-> "powerpoint_creation",
                     steps |-> <<"thinking", "action", "observation", "thinking", "action",
                                 "final_answer">>,
                     final_deliverable |-> SlideTitles]]

\* variant: only the country is required
CountryMissing(country, month) == country = ""

\* not country or not month
CountryOrMonthMissing(country, month) == country = "" \/ month = ""

\* the 500 response of the chat handler's except block
ChatError(req_body, exception, fetches, ai_calls, now) ==
    HttpResult(500,
               ApiResponse(FALSE,
                           [response |-> exception,
                            question |-> Get(req_body, "question", ""),
                            error_type |-> "processing_error"],
                           "Error processing chat request", now),
               fetches, ai_calls)

\* variant: the answer always reports data as available
ChatDataAlwaysAvailable(response, response_type, req_body, question, country, month, metrics_data) ==
    [response |-> response, response_type |-> response_type, question |-> question,
     country |-> country, month |-> month,
     context |-> [selected_country |-> Get(req_body, "selectedCountry", country),
                  selected_date |-> Get(req_body, "selectedDate", month),
                  data_available |-> TRUE,
                  records_analyzed |-> Len(metrics_data)]]

\* the data of a chat answer
ChatData(response, response_type, req_body, question, country, month, metrics_data) ==
    [response |-> response, response_type |-> response_type, question |-> question,
     country |-> country, month |-> month,
     context |-> [selected_country |-> Get(req_body, "selectedCountry", country),
                  selected_date |-> Get(req_body, "selectedDate", month),
                  data_available |-> Len(metrics_data) > 0,
                  records_analyzed |-> Len(metrics_data)]]

chat_endpoint(env, now) ==
    WithLoopClosedInFinally(
    IF env.request.json # "valid"
    THEN \* the except block reads req_body, which was never bound
         Unhandled("UnboundLocalError", <<>>, 0)
    ELSE IF env.request.body = <<>>
    THEN HttpResult(400, [error |-> "Request body required"], <<>>, 0)
    ELSE LET req_body == env.request.body
             question == Strip(Get(req_body, "question", ""))
             country == Strip(Get(req_body, "country", ""))
             month == Strip(Get(req_body, "month", ""))
             is_powerpoint_request == Get(req_body, "isPowerPointRequest", FALSE)
             filters == <<FetchFilters(country, month)>>
             metrics_data == env.metrics.rows
             ppt == generate_powerpoint_content_react(env.client, env.thinking, metrics_data)
             ppt_calls == IF is_powerpoint_request THEN ppt.ai_calls ELSE 0
             chat == generate_chat_response(env.client, env.completion)
         IN
         IF question = ""
         THEN HttpResult(400, [error |-> "Question is required"], <<>>, 0)
         ELSE IF CountryOrMonthMissing(country, month)
         THEN HttpResult(400, [error |-> "Country and month are required"], <<>>, 0)
         ELSE IF env.metrics.raised
         THEN ChatError(req_body, "Supabase API error", filters, 0, now)
         ELSE IF metrics_data = <<>>
         THEN HttpResult(200,
                         ApiResponse(TRUE,
                                     ChatData(<<TokText>>, "text", req_body, question, country,
                                              month, metrics_data),
                                     "No data available response generated", now),
                         filters, 0)
         ELSE IF is_powerpoint_request /\ ~ppt.raised
         THEN HttpResult(200,
                         ApiResponse(TRUE, ppt.value,
                                     "PowerPoint presentation generated successfully via chat endpoint",
                                     now),
                         filters, ppt.ai_calls)
         ELSE IF chat.raised
         THEN ChatError(req_body, "Failed to generate chat response", filters,
                        ppt_calls + chat.ai_calls, now)
         ELSE HttpResult(200,
                         ApiResponse(TRUE,
                                     ChatData(chat.value, "structured", req_body, question,
                                              country, month, metrics_data),
                                     "Structured chat response generated successfully", now),
                         filters, ppt_calls + chat.ai_calls))

\* not all([question, country, month])
PresentationFieldsMissing(question, country, month) ==
    question = "" \/ country = "" \/ month = ""

generate_presentation(env, now) ==
    WithLoopClosedInFinally(
    IF env.request.json # "valid"
    THEN HttpResult(500, ApiResponse(FALSE, <<>>, "Error generating presentation", now), <<>>, 0)
    ELSE IF env.request.body = <<>>
    THEN HttpResult(400, [error |-> "Request body required"], <<>>, 0)
    ELSE LET question == Strip(Get(env.request.body, "question", ""))
             country == Strip(Get(env.request.body, "country", ""))
             month == Strip(Get(env.request.body, "month", ""))
             filters == <<FetchFilters(country, month)>>
             ppt == generate_powerpoint_content_react(env.client, env.thinking, env.metrics.rows)
         IN
         IF PresentationFieldsMissing(question, country, month)
         THEN HttpResult(400, [error |-> "Question, country, and month are required"], <<>>, 0)
         ELSE IF env.metrics.raised
         THEN HttpResult(500, ApiResponse(FALSE, <<>>, "Error generating presentation", now),
                         filters, 0)
         ELSE IF env.metrics.rows = <<>>
         THEN HttpResult(404, [error |-> "No data available"], filters, 0)
         ELSE IF ppt.raised
         THEN HttpResult(500, ApiResponse(FALSE, <<>>, "Error generating presentation", now),
                         filters, ppt.ai_calls)
         ELSE HttpResult(200,
                         ApiResponse(TRUE, ppt.value,
                                     "PowerPoint presentation generated successfully", now),
                         filters, ppt.ai_calls))

----------------------------------------------------------------------------
(* Two runs of generate_questionnaire on the same report *)

\* one run: the finalized list and the response header, with the order
\* that list(set(...)) gave the categories in this run
QuestionnaireRun(data, country, now, categories) ==
    [questions |-> FinalizedQuestions(data, now),
     header |-> ResponseHeader(data, country, RulesSummary(FinalizedQuestions(data, now), categories))]

----------------------------------------------------------------------------
(* get_country_metrics, chat_health_check, test_supabase_api (function_app.py) *)

\* supabase_request("country_group_metrics", {"limit": "1"})
ProbeFilters == [limit |-> "1"]

\* not country or not month, on the route parameters
RouteParamsMissing(country, month) == country = "" \/ month = ""

get_country_metrics(env, now) ==
    WithLoopClosedInFinally(
    LET country == env.country
        month == env.month
        filters == <<FetchFilters(country, month)>>
        metrics == env.metrics.rows
    IN  IF RouteParamsMissing(country, month)
        THEN HttpResult(400, [error |-> "Country and month parameters required"], <<>>, 0)
        ELSE IF env.metrics.raised
        THEN HttpResult(500, ApiResponse(FALSE, <<>>, "Error: Supabase API error", now), filters, 0)
        ELSE IF metrics = <<>>
        THEN HttpResult(404, [error |-> "No metrics found"], filters, 0)
        ELSE HttpResult(200,
                        ApiResponse(TRUE,
                                    [country |-> country, month |-> month, metrics |-> metrics,
                                     total_records |-> Len(metrics)],
                                    NoneStr, now),
                        filters, 0))

\* the inner try catches a failing probe, so the handler answers 200 either way
chat_health_check(env, now) ==
    LET openai_status == IF env.client # "None" THEN "healthy" ELSE "unavailable"
        db_status == IF env.metrics.raised THEN "error"
                     ELSE IF env.metrics.rows = <<>> THEN "no_data"
                     ELSE "healthy"
    IN  WithLoopClosedAfterFetch(
            HttpResult(200,
                       [chat_service |-> "healthy",
                        openai_client |-> openai_status,
                        database_connection |-> db_status,
                        available_endpoints |-> <<"/api/chat", "/api/generate-presentation">>,
                        timestamp |-> Timestamp(now)],
                       <<ProbeFilters>>, 0),
            env.metrics.raised)

test_supabase_api(env) ==
    LET rows == env.metrics.rows IN
    WithLoopClosedAfterFetch(
        IF env.metrics.raised
        THEN HttpResult(500, [success |-> FALSE, error |-> "Supabase API error"], <<ProbeFilters>>, 0)
        ELSE HttpResult(200,
                        [success |-> TRUE,
                         message |-> "Supabase API connection successful",
                         sample_data |-> IF rows # <<>> THEN SubSeq(rows, 1, 1)
                                         ELSE <<"No data found">>],
                        <<ProbeFilters>>, 0),
        env.metrics.raised)

----------------------------------------------------------------------------
(* process_response (questionnaire_generator.py) *)

\* variant: the status follows the score instead of the verdict
ResponseStatusFromScore(validation) ==
    IF validation.validation_score >= 50 THEN "completed" ELSE "partial"

\* "completed" if validation.is_valid else "partial"
ResponseStatus(validation) == IF validation.is_valid THEN "completed" ELSE "partial"

\* the record is built and logged; the caller gets the id, the status and the score
process_response(questionnaire_id, request, validation, now) ==
    LET response_id ==
            "resp_" \o questionnaire_id \o "_" \o request["question_id"] \o "_" \o Timestamp(now)
        response_record ==
            [id |-> response_id,
             questionnaire_id |-> questionnaire_id,
             question_id |-> request["question_id"],
             response_text |-> Get(request, "response_text", NoneStr),
             response_data |-> Get(request, "response_data", NoneStr),
             confidence_level |-> request["confidence_level"],
             uploaded_files |-> Get(request, "uploaded_files", <<>>),
             submitted_by |-> request["submitted_by"],
             submitted_at |-> Timestamp(now),
             ai_validated |-> validation.is_valid,
             ai_validation_score |-> validation.validation_score,
             ai_suggestions |-> validation.suggestions,
             status |-> ResponseStatus(validation)]
    IN  [response_id |-> response_id,
         status |-> response_record.status,
         validation_score |-> validation.validation_score]

----------------------------------------------------------------------------
(* Inputs *)

ErrorLabel      == <<"E","r","r","o","r">>
ErrorsLabel     == <<"D","Q"," ","E","r","r","o","r","s">>
LowerErrorLabel == <<"e","r","r","o","r">>
TotalLabel      == <<"T","o","t","a","l">>

ErrorCriteria == {ErrorLabel, ErrorsLabel, LowerErrorLabel}
ContractCounts == {0, 3, 8720}
DelinquentAmounts == {50000000, 50000001, 68292414}

PortfolioEntries ==
    {[criteria |-> RelevantPortfolio, no_of_contracts |-> 120, delinquent_amount |-> a] :
        a \in DelinquentAmounts}
    \cup {[criteria |-> c, no_of_contracts |-> n, delinquent_amount |-> 0] :
        c \in ErrorCriteria, n \in ContractCounts}
    \cup {[criteria |-> RelevantPortfolio], [criteria |-> ErrorLabel], [no_of_contracts |-> 3]}

OverviewInputs ==
    {<<>>, [overview |-> <<>>]}
    \cup {[overview |-> [portfolios |-> ps]] : ps \in SeqUpTo(PortfolioEntries, MaxPortfolios)}

ChangeTypes == {"Changes in Contract End Date", "Changes in Rating", "Changes in Customer"}
ChangeCounts == {10, 11, 50, 51}

\* insertion-ordered dicts: no key twice
ChangeDicts(n) ==
    {d \in SeqUpTo(ChangeTypes \X ChangeCounts, n) :
        \A i, j \in 1..Len(d) : i # j => d[i][1] # d[j][1]}

\* dicts with more categories than the question text lists
ManyChangeTypes ==
    <<"Changes in Contract End Date", "Changes in Rating", "Changes in Customer",
      "Changes in Interest Rate", "Changes in Residual Value", "Changes in Payment Frequency",
      "Changes in Currency">>
ManyChangeCounts == {5, 11, 51}
ManyChangeDicts ==
    {[i \in 1..Len(ManyChangeTypes) |-> <<ManyChangeTypes[i], counts[i]>>] :
        counts \in [1..Len(ManyChangeTypes) -> ManyChangeCounts]}

AdditionalInfoInputs ==
    {<<>>, [additional_info |-> <<>>]}
    \cup {[additional_info |-> [changes |-> d]] : d \in ChangeDicts(MaxChanges) \cup ManyChangeDicts}

WriteoffCriteria == {ConvertedPortfolio, RelevantPortfolio, TotalLabel}
NetLossAmounts == {0, 27505000}

WriteoffEntries ==
    {[criteria |-> c, net_loss_amount |-> a] : c \in WriteoffCriteria, a \in NetLossAmounts}
    \cup {[criteria |-> ConvertedPortfolio], [net_loss_amount |-> 27505000]}

WriteoffFlags == {<<>>, [has_new_writeoffs |-> TRUE], [has_new_writeoffs |-> FALSE]}

WriteoffInputs ==
    {<<>>, [writeoffs |-> <<>>]}
    \cup {[writeoffs |-> [writeoffs |-> ws, flags |-> f]] :
            ws \in SeqUpTo(WriteoffEntries, MaxWriteoffs), f \in WriteoffFlags \ {<<>>}}
    \cup {[writeoffs |-> [writeoffs |-> ws]] : ws \in SeqUpTo(WriteoffEntries, MaxWriteoffs)}

DescLower == <<"c","o","n","f","i","r","m"," ","r","u","l","e">>
DescUpper == <<"R","U","L","E"," ","C","O","N","F","I","R","M","A","T","I","O","N">>
DescMixed == <<"C","o","n","f","i","r","m","e","d">>
DescOther == <<"c","o","n","f","o","r","m">>

WarningDescriptions == {DescLower, DescUpper, DescMixed, DescOther}
WarningCounts == {2, 5}

WarningEntries ==
    {[description |-> d, contracts |-> n] : d \in WarningDescriptions, n \in WarningCounts}
    \cup {[description |-> DescMixed], [contracts |-> 5]}

WarningInputs ==
    {<<>>, [warnings |-> <<>>]}
    \cup {[warnings |-> [warnings |-> ws]] : ws \in SeqUpTo(WarningEntries, MaxWarnings)}

\* clock readings, in seconds
Clock == {1, 2}

\* reports for the whole engine: every section absent or present
ReportPortfolioEntries ==
    {[criteria |-> RelevantPortfolio, no_of_contracts |-> 120, delinquent_amount |-> a] :
        a \in {50000000, 68292414}}
    \cup {[criteria |-> ErrorLabel, no_of_contracts |-> n, delinquent_amount |-> 0] :
        n \in {0, 8720}}

ReportOverviews ==
    {<<>>} \cup {"overview" :> [portfolios |-> ps] :
                    ps \in SeqUpTo(ReportPortfolioEntries, MaxReportPortfolios)}

ReportAdditionalInfos ==
    {<<>>, "additional_info" :> [changes |-> <<>>]}
    \cup {"additional_info" :> [changes |-> <<<<"Changes in Rating", c>>>>] : c \in {11, 51}}

ReportWriteoffs ==
    {<<>>,
     "writeoffs" :> [writeoffs |-> <<>>, flags |-> [has_new_writeoffs |-> FALSE]],
     "writeoffs" :> [writeoffs |-> <<>>, flags |-> [has_new_writeoffs |-> TRUE]],
     "writeoffs" :> [writeoffs |-> <<[criteria |-> RelevantPortfolio, net_loss_amount |-> 0]>>,
                     flags |-> [has_new_writeoffs |-> TRUE]],
     "writeoffs" :> [writeoffs |-> <<[criteria |-> TotalLabel, net_loss_amount |-> 27505000]>>,
                     flags |-> [has_new_writeoffs |-> FALSE]],
     "writeoffs" :> [writeoffs |-> <<[criteria |-> ConvertedPortfolio, net_loss_amount |-> 27505000]>>,
                     flags |-> [has_new_writeoffs |-> FALSE]]}

ReportWarnings ==
    {<<>>,
     "warnings" :> [warnings |-> <<[description |-> DescMixed, contracts |-> 5]>>],
     "warnings" :> [warnings |-> <<[description |-> DescOther, contracts |-> 2]>>]}

ReportMetadata ==
    {<<>>, "metadata" :> [delivering_entity_name |-> "Daimler Truck FS", reporting_date |-> "2025-05-31"]}

Reports ==
    {o @@ a @@ w @@ g @@ m :
        o \in ReportOverviews, a \in ReportAdditionalInfos, w \in ReportWriteoffs,
        g \in ReportWarnings, m \in ReportMetadata}

Countries == {"Netherlands"}

\* reports for the risk scorer, amounts in whole currency units
RiskPortfolioEntries ==
    {[criteria |-> ErrorLabel, no_of_contracts |-> n, delinquent_amount |-> 0] : n \in {-1, 1}}
    \cup {[criteria |-> RelevantPortfolio, no_of_contracts |-> n, delinquent_amount |-> a] :
            n \in {0, 39}, a \in {0, 500000, 500001, 2000000}}
    \cup {[criteria |-> ErrorLabel], [no_of_contracts |-> 1]}

RiskOverviews ==
    {<<>>} \cup {"overview" :> [portfolios |-> ps] :
                    ps \in SeqUpTo(RiskPortfolioEntries, MaxRiskPortfolios)}

RiskAdditionalInfos ==
    {<<>>, "additional_info" :> <<>>}
    \cup {"additional_info" :> [summary |-> [total_changes |-> c]] : c \in {200, 201, 650, 1500}}

RiskReports == {o @@ a : o \in RiskOverviews, a \in RiskAdditionalInfos}

\* what the AI may answer
AiObjects ==
    {<<>>, [id |-> "q1_risk_delinquency", category |-> "Risk Management", priority |-> "critical"]}
    \cup {[priority |-> p] : p \in ValidPriorities \cup {"urgent"}}

RECURSIVE CommaSeparated(_)
CommaSeparated(objects) ==
    IF objects = <<>> THEN <<>>
    ELSE IF Len(objects) = 1 THEN <<TokObject(objects[1])>>
    ELSE <<TokObject(objects[1]), TokComma>> \o CommaSeparated(Tail(objects))

\* the JSON array of the objects
JsonArray(objects) == <<TokOpen>> \o CommaSeparated(objects) \o <<TokClose>>

AiResponses ==
    {JsonArray(objects) : objects \in SeqUpTo(AiObjects, MaxAiQuestions)}
    \cup {<<TokText>> \o JsonArray(<<o>>) \o <<TokText>> : o \in AiObjects}
    \cup {<<TokText>>,
          <<TokObject([priority |-> "high"])>>,
          <<TokObject(<<>>)>>,
          <<TokOpen, TokObject([priority |-> "high"])>>,
          <<TokOpen, TokObject([priority |-> "high"]), TokObject([priority |-> "low"]), TokClose>>,
          <<TokOpen, TokText, TokClose, TokText>> \o JsonArray(<<[priority |-> "high"]>>)}

Completions ==
    {[raised |-> TRUE, content |-> <<>>]} \cup {[raised |-> FALSE, content |-> c] : c \in AiResponses}

MetricRecord == [group_name |-> "Trucks", num_contracts |-> 120, delinquent_amount |-> 68292414]

NoMetrics == [raised |-> FALSE, rows |-> <<>>]
SomeMetrics == [raised |-> FALSE, rows |-> <<MetricRecord>>]
FetchOutcomes == {[raised |-> TRUE, rows |-> <<>>], NoMetrics, SomeMetrics}

ValidRequest == [json |-> "valid", body |-> [country |-> "NL", month |-> "2025-05"]]

RequestsRejected ==
    {[json |-> "invalid", body |-> <<>>],
     [json |-> "valid", body |-> <<>>],
     [json |-> "valid", body |-> [country |-> "NL"]],
     [json |-> "valid", body |-> [month |-> "2025-05"]],
     [json |-> "valid", body |-> [country |-> "", month |-> "2025-05"]]}

NoCompletion == [raised |-> TRUE, content |-> <<>>]

\* a request and the answers of the outside world to the calls the handler
\* gets to make: a call that is never made has no answer to choose
EndpointEnvs ==
    {[request |-> r, metrics |-> NoMetrics, client |-> "None", completion |-> NoCompletion] :
        r \in RequestsRejected}
    \cup {[request |-> r, metrics |-> m, client |-> "None", completion |-> NoCompletion] :
            r \in {ValidRequest, [json |-> "valid", body |-> [country |-> "NL", month |-> "2025-05-01"]]},
            m \in FetchOutcomes}
    \cup {[request |-> ValidRequest, metrics |-> SomeMetrics, client |-> "client", completion |-> c] :
            c \in Completions}


\* response texts around the fallback's length limit
RECURSIVE Repeat(_, _)
Repeat(c, n) == IF n = 0 THEN "" ELSE c \o Repeat(c, n - 1)

ResponseTexts == {"", "ok"} \cup {Repeat("x", n) : n \in {49, 50, 60}}

SubmissionRequests ==
    {[question_id |-> "q1", confidence_level |-> "high", submitted_by |-> "analyst"]}
    \cup {[question_id |-> "q1", response_text |-> t, confidence_level |-> c,
            submitted_by |-> "analyst"] : t \in ResponseTexts, c \in {"high", "low"}}

\* what the scoring service answers
ServiceValidations ==
    {[is_valid |-> v, validation_score |-> sc, issues |-> <<>>, suggestions |-> <<>>] :
        v \in BOOLEAN, sc \in {30, 90}}
    \cup {<<>>, [is_valid |-> TRUE], [validation_score |-> 90, issues |-> <<>>, suggestions |-> <<>>]}

NoScoring == [raised |-> TRUE, value |-> <<>>]
ScoringOutcomes == {NoScoring} \cup {[raised |-> FALSE, value |-> v] : v \in ServiceValidations}

\* a request and the answer of the scoring service to the call, if one is made
ValidationInputs ==
    {[request |-> r, openai_service |-> NoScoring] : r \in {q \in SubmissionRequests : TextMissing(q)}}
    \cup {[request |-> r, openai_service |-> o] :
            r \in {q \in SubmissionRequests : ~TextMissing(q)}, o \in ScoringOutcomes}

QuestionnaireIds == {"qn_NL_202505"}

ResponsePosts ==
    {[json |-> "invalid", body |-> <<>>], [json |-> "valid", body |-> <<>>],
     [json |-> "valid", body |-> [question_id |-> "q1", response_text |-> "ok"]],
     [json |-> "valid", body |-> [question_id |-> "q1", response_text |-> "ok",
                                  confidence_level |-> "certain", submitted_by |-> "analyst"]]}
    \cup {[json |-> "valid", body |-> b] : b \in SubmissionRequests}


\* what the AI may answer to a chat question
ChatObjects ==
    {<<>>, [summary |-> "IRR is stable"], [sections |-> <<>>],
     [summary |-> "IRR is stable", sections |-> <<[title |-> "IRR", content |-> <<>>]>>]}

ChatTexts ==
    {<<>>, <<TokText>>, <<TokSpace>>, <<TokLBrace>>, <<TokRBrace, TokLBrace>>,
     <<TokLBrace, TokText, TokRBrace>>, <<TokFenceJson>>}
    \cup {<<TokObject(o)>> : o \in ChatObjects}
    \cup {<<TokSpace, TokFenceJson, TokObject(o), TokFence, TokSpace>> : o \in ChatObjects}
    \cup {<<TokFence, TokObject(o), TokFence>> : o \in ChatObjects}
    \cup {<<TokText, TokObject(o), TokText>> : o \in ChatObjects}
    \cup {<<TokObject(o), TokObject(o)>> : o \in ChatObjects}
    \cup {<<TokObject(o), TokRBrace>> : o \in ChatObjects}

ChatCompletions ==
    {[raised |-> TRUE, content |-> <<>>], [raised |-> FALSE, content |-> <<>>]}
    \cup {[raised |-> FALSE, content |-> <<c>>] : c \in ChatTexts}

\* a client, if one could be built, and what the completion call does
ChatResponseInputs ==
    {[client |-> "None", completion |-> [raised |-> TRUE, content |-> <<>>]]}
    \cup {[client |-> "client", completion |-> c] : c \in ChatCompletions}


\* metric rows with and without an irr_nominal value (in basis points)
MetricRow ==
    [group_name |-> "Trucks", num_contracts |-> 120, net_book_value |-> 400800000,
     delinquent_amount |-> 68292414, irr_nominal |-> <<486>>]
MetricRowNoIrr == [MetricRow EXCEPT !.group_name = "Vans", !.irr_nominal = <<>>]

ChatFetchOutcomes ==
    {[raised |-> TRUE, rows |-> <<>>], NoMetrics}
    \cup {[raised |-> FALSE, rows |-> rows] :
            rows \in {<<MetricRow>>, <<MetricRowNoIrr>>, <<MetricRow, MetricRowNoIrr>>}}

NoThinking == [raised |-> TRUE]

ChatBody == [question |-> "Why did IRR drop?", country |-> "NL", month |-> "2025-05"]

\* bodies the chat and generate-presentation handlers reject
ChatBodiesRejected ==
    {[country |-> "NL", month |-> "2025-05"],
     [question |-> "", country |-> "NL", month |-> "2025-05"],
     [question |-> "  ", country |-> "NL", month |-> "2025-05"],
     [question |-> "Why did IRR drop?", month |-> "2025-05"],
     [question |-> "Why did IRR drop?", country |-> " ", month |-> "2025-05"],
     [question |-> "Why did IRR drop?", country |-> "NL"],
     [question |-> "Why did IRR drop?", country |-> "NL", month |-> ""],
     [question |-> "", country |-> "NL", month |-> "2025-05", isPowerPointRequest |-> TRUE]}

ChatBodiesAccepted ==
    {ChatBody, [question |-> " Why did IRR drop? ", country |-> "NL ", month |-> "2025-05-01"],
     ChatBody @@ [selectedCountry |-> "Netherlands", selectedDate |-> "May 2025"],
     ChatBody @@ [isPowerPointRequest |-> TRUE],
     ChatBody @@ [isPowerPointRequest |-> FALSE]}

ChatCompletionSamples ==
    {[raised |-> TRUE, content |-> <<>>], [raised |-> FALSE, content |-> <<>>],
     [raised |-> FALSE, content |-> <<<<TokText>>>>],
     [raised |-> FALSE, content |-> <<<<TokFenceJson, TokObject([sections |-> <<>>]), TokFence>>>>]}

\* a chat or generate-presentation request with the answers to the calls
\* the handler gets to make
ChatEnvs ==
    {[request |-> r, metrics |-> NoMetrics, client |-> "None", thinking |-> NoThinking,
      completion |-> NoCompletion] :
        r \in {[json |-> "invalid", body |-> <<>>], [json |-> "valid", body |-> <<>>]}
              \cup {[json |-> "valid", body |-> b] : b \in ChatBodiesRejected}}
    \cup {[request |-> [json |-> "valid", body |-> b], metrics |-> m, client |-> "None",
            thinking |-> NoThinking, completion |-> NoCompletion] :
            b \in ChatBodiesAccepted, m \in ChatFetchOutcomes}
    \cup {[request |-> [json |-> "valid", body |-> b], metrics |-> [raised |-> FALSE, rows |-> rows],
            client |-> "client", thinking |-> [raised |-> t], completion |-> c] :
            b \in {ChatBody, ChatBody @@ [isPowerPointRequest |-> TRUE]},
            rows \in {<<MetricRow>>, <<MetricRow, MetricRowNoIrr>>},
            t \in BOOLEAN, c \in ChatCompletionSamples}

SummaryBody ==
    [country |-> "NL", month |-> "2025-05", group_type |-> "product", metric |-> "irr",
     data |-> <<MetricRow>>]

SummaryBodiesRejected ==
    {[g \in DOMAIN SummaryBody \ {f} |-> SummaryBody[g]] : f \in DOMAIN SummaryBody}
    \cup {[SummaryBody EXCEPT ![f] = ""] : f \in {"country", "month", "group_type", "metric"}}
    \cup {[SummaryBody EXCEPT !.data = <<>>]}

SummaryTexts == {<<TokText>>}

SummaryEnvs ==
    {[request |-> r, client |-> "None", completion |-> NoCompletion] :
        r \in {[json |-> "invalid", body |-> <<>>], [json |-> "valid", body |-> <<>>]}
              \cup {[json |-> "valid", body |-> b] : b \in SummaryBodiesRejected \cup {SummaryBody}}}
    \cup {[request |-> [json |-> "valid", body |-> SummaryBody], client |-> "client",
            completion |-> c] :
            c \in {NoCompletion} \cup {[raised |-> FALSE, content |-> t] : t \in SummaryTexts}}

\* month tokens: "YYYY-MM", "YYYY-MM-DD", and strings of other shapes
MonthTokens == {"2025-05", "2025-05-01", "2024-12", "", "2025", "2025-5", "May2025", "2025-05-1"}
CountryCodes == {"NL", "DE"}

\* reports for the repeated run: at most one portfolio entry
RerunReports ==
    {d \in Reports : /\ "metadata" \in DOMAIN d
                     /\ Len(Get(Get(d, "overview", <<>>), "portfolios", <<>>)) <= 1}

\* route parameters and store answers for country-metrics; "" is a missing parameter
CountryMetricsEnvs ==
    {[country |-> c, month |-> m, metrics |-> o] :
        c \in {"", "NL"}, m \in {"", "2025-05"}, o \in ChatFetchOutcomes}

\* what the two probes find: the AI client and the answer of the store
ProbeEnvs == {[client |-> c, metrics |-> o] : c \in {"None", "client"}, o \in ChatFetchOutcomes}

----------------------------------------------------------------------------
(* State machine: every call is independent of the calls before it *)

Init ==
    /\ op = "idle"
    /\ dq_data = <<>>
    /\ questions = <<>>
    /\ result = <<>>

CallOverviewRule ==
    /\ op = "idle"
    /\ \E data \in OverviewInputs, now \in Clock :
        /\ dq_data' = data
        /\ questions' = generate_overview_questions(data, now)
    /\ op' = "generate_overview_questions"
    /\ UNCHANGED result

CallAdditionalInfoRule ==
    /\ op = "idle"
    /\ \E data \in AdditionalInfoInputs, now \in Clock :
        /\ dq_data' = data
        /\ questions' = generate_additional_info_questions(data, now)
    /\ op' = "generate_additional_info_questions"
    /\ UNCHANGED result

CallWriteoffRule ==
    /\ op = "idle"
    /\ \E data \in WriteoffInputs, now \in Clock :
        /\ dq_data' = data
        /\ questions' = generate_writeoff_questions(data, now)
    /\ op' = "generate_writeoff_questions"
    /\ UNCHANGED result

CallWarningsRule ==
    /\ op = "idle"
    /\ \E data \in WarningInputs, now \in Clock :
        /\ dq_data' = data
        /\ questions' = generate_error_warning_questions(data, now)
    /\ op' = "generate_error_warning_questions"
    /\ UNCHANGED result

CallGenerateQuestionnaire ==
    /\ op = "idle"
    /\ \E data \in Reports, country \in Countries, now \in Clock :
        LET finalized == FinalizedQuestions(data, now) IN
        \E categories \in ListsOf(CategorySet(finalized)) :
            /\ dq_data' = data
            /\ questions' = finalized
            /\ result' = ResponseHeader(data, country, RulesSummary(finalized, categories))
    /\ op' = "generate_questionnaire"

CallQuestionnaireEndpoint ==
    /\ op = "idle"
    /\ \E env \in EndpointEnvs :
        LET qs == EndpointQuestions(env) IN
        \E categories \in ListsOf(CategorySet(qs)) :
            /\ dq_data' = env
            /\ questions' = qs
            /\ result' = generate_questionnaire_endpoint(env, categories)
    /\ op' = "questionnaire/generate"

CallCalculateRiskScore ==
    /\ op = "idle"
    /\ \E report_data \in RiskReports :
        /\ dq_data' = report_data
        /\ result' = [risk_score |-> calculate_risk_score(report_data)]
    /\ op' = "calculate_risk_score"
    /\ UNCHANGED questions

CallValidateResponse ==
    /\ op = "idle"
    /\ \E input \in ValidationInputs :
        /\ dq_data' = input
        /\ result' = validate_response(input.request, input.openai_service)
    /\ op' = "validate_response"
    /\ UNCHANGED questions

CallSubmitResponse ==
    /\ op = "idle"
    /\ \E questionnaire_id \in QuestionnaireIds, request \in ResponsePosts, now \in Clock :
        /\ dq_data' = [questionnaire_id |-> questionnaire_id, request |-> request]
        /\ result' = submit_response(questionnaire_id, request, now)
    /\ op' = "questionnaire/{questionnaire_id}/response"
    /\ UNCHANGED questions

CallGenerateChatResponse ==
    /\ op = "idle"
    /\ \E input \in ChatResponseInputs :
        /\ dq_data' = input
        /\ result' = generate_chat_response(input.client, input.completion)
    /\ op' = "generate_chat_response"
    /\ UNCHANGED questions

CallAiSummary ==
    /\ op = "idle"
    /\ \E env \in SummaryEnvs, now \in Clock :
        /\ dq_data' = env
        /\ result' = create_ai_summary(env, now)
    /\ op' = "ai-summary"
    /\ UNCHANGED questions

CallChat ==
    /\ op = "idle"
    /\ \E env \in ChatEnvs, now \in Clock :
        /\ dq_data' = env
        /\ result' = chat_endpoint(env, now)
    /\ op' = "chat"
    /\ UNCHANGED questions

CallGeneratePresentation ==
    /\ op = "idle"
    /\ \E env \in ChatEnvs, now \in Clock :
        /\ dq_data' = env
        /\ result' = generate_presentation(env, now)
    /\ op' = "generate-presentation"
    /\ UNCHANGED questions

CallFetchCountryMetrics ==
    /\ op = "idle"
    /\ \E country \in CountryCodes, month \in MonthTokens, store \in FetchOutcomes :
        /\ dq_data' = [country |-> country, month |-> month, store |-> store]
        /\ result' = fetch_country_metrics(country, month, store)
    /\ op' = "fetch_country_metrics"
    /\ UNCHANGED questions

\* the same report is given to generate_questionnaire twice; each run reads
\* the clock and orders its categories on its own
CallGenerateQuestionnaireTwice ==
    /\ op = "idle"
    /\ \E data \in RerunReports, country \in Countries, now1 \in Clock, now2 \in Clock :
        \E categories1 \in ListsOf(CategorySet(FinalizedQuestions(data, now1))),
           categories2 \in ListsOf(CategorySet(FinalizedQuestions(data, now2))) :
            /\ now1 <= now2
            /\ dq_data' = [data |-> data, now1 |-> now1, now2 |-> now2]
            /\ result' = [first |-> QuestionnaireRun(data, country, now1, categories1),
                          second |-> QuestionnaireRun(data, country, now2, categories2)]
    /\ op' = "generate_questionnaire twice"
    /\ UNCHANGED questions

CallAnalyzeDqReport ==
    /\ op = "idle"
    /\ \E report_data \in RiskReports :
        /\ dq_data' = report_data
        /\ result' = analyze_dq_report(report_data)
    /\ op' = "analyze_dq_report"
    /\ UNCHANGED questions

CallCountryMetrics ==
    /\ op = "idle"
    /\ \E env \in CountryMetricsEnvs, now \in Clock :
        /\ dq_data' = env
        /\ result' = get_country_metrics(env, now)
    /\ op' = "country-metrics"
    /\ UNCHANGED questions

CallChatHealth ==
    /\ op = "idle"
    /\ \E env \in ProbeEnvs, now \in Clock :
        /\ dq_data' = env
        /\ result' = chat_health_check(env, now)
    /\ op' = "chat/health"
    /\ UNCHANGED questions

CallTestSupabaseApi ==
    /\ op = "idle"
    /\ \E env \in ProbeEnvs :
        /\ dq_data' = env
        /\ result' = test_supabase_api(env)
    /\ op' = "test-supabase-api"
    /\ UNCHANGED questions

\* validate_response, then process_response with the validation it returned
CallProcessResponse ==
    /\ op = "idle"
    /\ \E questionnaire_id \in QuestionnaireIds, input \in ValidationInputs, now \in Clock :
        LET validation == validate_response(input.request, input.openai_service) IN
        /\ dq_data' = [questionnaire_id |-> questionnaire_id, request |-> input.request,
                       openai_service |-> input.openai_service, validation |-> validation]
        /\ result' = process_response(questionnaire_id, input.request, validation, now)
    /\ op' = "process_response"
    /\ UNCHANGED questions

\* the call returns and the next one starts from scratch
Return ==
    /\ op # "idle"
    /\ op' = "idle"
    /\ dq_data' = <<>>
    /\ questions' = <<>>
    /\ result' = <<>>

Next ==
    \/ CallOverviewRule
    \/ CallAdditionalInfoRule
    \/ CallWriteoffRule
    \/ CallWarningsRule
    \/ CallGenerateQuestionnaire
    \/ CallQuestionnaireEndpoint
    \/ CallCalculateRiskScore
    \/ CallValidateResponse
    \/ CallSubmitResponse
    \/ CallGenerateChatResponse
    \/ CallAiSummary
    \/ CallChat
    \/ CallGeneratePresentation
    \/ CallFetchCountryMetrics
    \/ CallGenerateQuestionnaireTwice
    \/ CallAnalyzeDqReport
    \/ CallCountryMetrics
    \/ CallChatHealth
    \/ CallTestSupabaseApi
    \/ CallProcessResponse
    \/ Return

Spec == Init /\ [][Next]_vars

----------------------------------------------------------------------------
(* Vocabulary of the properties: the sections of the report as given *)

PortfoliosOf(data) == Get(Get(data, "overview", <<>>), "portfolios", <<>>)
ChangesOf(data) == Get(Get(data, "additional_info", <<>>), "changes", <<>>)
WriteoffsOf(data) == Get(Get(data, "writeoffs", <<>>), "writeoffs", <<>>)
FlagsOf(data) == Get(Get(data, "writeoffs", <<>>), "flags", <<>>)
WarningsOf(data) == Get(Get(data, "warnings", <<>>), "warnings", <<>>)

\* positions of the entries labelled exactly "Relevant Portfolio"
RelevantPositions(ps) == {i \in 1..Len(ps) : Get(ps[i], "criteria", NoneStr) = RelevantPortfolio}

\* positions of the entries whose label has "Error" somewhere in it
ErrorPositions(ps) ==
    {i \in 1..Len(ps) :
        LET c == Get(ps[i], "criteria", <<>>) IN
        \E k \in 1..Len(c) : k + 4 <= Len(c) /\ c[k] = "E" /\ c[k+1] = "r" /\ c[k+2] = "r"
                             /\ c[k+3] = "o" /\ c[k+4] = "r"}

QuestionsWith(qs, category, priority) ==
    {i \in 1..Len(qs) : qs[i].category = category /\ qs[i].priority = priority}

\* critical < high < medium < low
Rank(priority) ==
    CASE priority = "critical" -> 1
      [] priority = "high" -> 2
      [] priority = "medium" -> 3
      [] priority = "low" -> 4

----------------------------------------------------------------------------
(* C1: the question list returned by generate_questionnaire is finalized:  *)
(* read in order, order_sequence is exactly 1, 2, ..., N, and the priority *)
(* rank (critical < high < medium < low) never decreases along the list.   *)
C1_FinalizedOrder ==
    op = "generate_questionnaire" =>
        /\ \A i \in 1..Len(questions) : questions[i].order_sequence = i
        /\ \A i, j \in 1..Len(questions) :
            i < j => Rank(questions[i].priority) <= Rank(questions[j].priority)

C1_Witness ==
    /\ op = "generate_questionnaire"
    /\ Len(questions) = 5
    /\ questions[1].priority = "critical"
    /\ questions[3].priority = "high"
    /\ questions[5].priority = "medium"

----------------------------------------------------------------------------
(* C2 as stated: the question list returned by the questionnaire/generate  *)
(* endpoint has order_sequence dense 1..N and is in the order of a sort by *)
(* priority rank, critical first, ties in original position.               *)
C2_EndpointListSorted ==
    (op = "questionnaire/generate" /\ result.status_code = 200) =>
        /\ \A i \in 1..Len(questions) : questions[i].order_sequence = i
        /\ \A i, j \in 1..Len(questions) :
            i < j => Rank(questions[i].priority) <= Rank(questions[j].priority)

----------------------------------------------------------------------------
\* a total of a report, summed over its portfolio entries
SumOver(ps, value(_)) == SumSeq(MapSeq(value, ps))

ContractsOf(p) == Get(p, "no_of_contracts", 0)
DelinquentOf(p) == Get(p, "delinquent_amount", 0)
ErrorContractsOf(p) == IF ErrorPositions(<<p>>) # {} THEN Get(p, "no_of_contracts", 0) ELSE 0

TotalChangesOf(data) ==
    Get(Get(Get(data, "additional_info", <<>>), "summary", <<>>), "total_changes", 0)

(* C3 as stated: for all report inputs calculate_risk_score returns a      *)
(* value in the closed range [0, 10], and 0 when no component applies.     *)
C3_ScoreInRange ==
    op = "calculate_risk_score" =>
        LET score == result.risk_score
            ps == PortfoliosOf(dq_data)
        IN  /\ 0 <= score[1]
            /\ score[1] <= 10 * score[2]
            /\ (/\ SumOver(ps, ContractsOf) <= 0
                /\ SumOver(ps, DelinquentOf) <= 500000
                /\ TotalChangesOf(dq_data) <= 200) => score[1] = 0

(* C4: calculate_risk_score is the simple mean of exactly the components   *)
(* whose precondition holds: min(error_rate_pct*2, 10) iff total_contracts *)
(* > 0, min(total_delinquent/1,000,000*5, 10) iff total_delinquent >       *)
(* 500,000, min(total_changes/100, 10) iff total_changes > 200; a          *)
(* component whose precondition is false does not enter the denominator.   *)
C4_MeanOfApplicableComponents ==
    op = "calculate_risk_score" =>
        LET score == result.risk_score
            ps == PortfoliosOf(dq_data)
            T == SumOver(ps, ContractsOf)
            E == SumOver(ps, ErrorContractsOf)
            D == SumOver(ps, DelinquentOf)
            C == TotalChangesOf(dq_data)
            c1 == IF T > 0 THEN (IF 200 * E >= 10 * T THEN <<10, 1>> ELSE Rat(200 * E, T))
                  ELSE <<0, 1>>
            c2 == IF D > 500000 THEN (IF D >= 2000000 THEN <<10, 1>> ELSE Rat(D, 200000))
                  ELSE <<0, 1>>
            c3 == IF C > 200 THEN (IF C >= 1000 THEN <<10, 1>> ELSE Rat(C, 100))
                  ELSE <<0, 1>>
            n == (IF T > 0 THEN 1 ELSE 0) + (IF D > 500000 THEN 1 ELSE 0)
                 + (IF C > 200 THEN 1 ELSE 0)
        IN  \* n * score = c1 + c2 + c3
            Rat(n * score[1], score[2]) = RatAdd(c1, RatAdd(c2, c3))

C4_Witness ==
    /\ op = "calculate_risk_score"
    /\ LET ps == PortfoliosOf(dq_data) IN
        /\ SumOver(ps, ContractsOf) = 40
        /\ SumOver(ps, ErrorContractsOf) = 1
        /\ SumOver(ps, DelinquentOf) = 500000
    /\ TotalChangesOf(dq_data) = 650
    /\ result.risk_score = <<23, 4>>

----------------------------------------------------------------------------
C6_Original_FirstErrorEntry ==
    op = "generate_overview_questions" =>
        LET ps == PortfoliosOf(dq_data)
            err == ErrorPositions(ps)
            count == IF err = {} THEN 0 ELSE Get(ps[MinOf(err)], "no_of_contracts", 0)
            high == QuestionsWith(questions, "Overview", "high")
        IN  /\ Cardinality(high) = (IF err # {} /\ count > 0 THEN 1 ELSE 0)
            /\ \A i \in high :
                /\ questions[i].related_data.error_contracts = count
                /\ questions[i].question_text = ErrorsText(count)

(* C6 amended: when several portfolio entries have a label containing      *)
(* "Error", the HIGH error question is derived from the last such entry in *)
(* list order: its contract count decides whether the question is emitted  *)
(* and is the count named in the question and in related_data.             *)
C6_LastErrorEntry ==
    op = "generate_overview_questions" =>
        LET ps == PortfoliosOf(dq_data)
            err == ErrorPositions(ps)
            count == IF err = {} THEN 0 ELSE Get(ps[MaxOf(err)], "no_of_contracts", 0)
            high == QuestionsWith(questions, "Overview", "high")
        IN  /\ Cardinality(high) = (IF err # {} /\ count > 0 THEN 1 ELSE 0)
            /\ \A i \in high :
                /\ questions[i].related_data.error_contracts = count
                /\ questions[i].question_text = ErrorsText(count)

C6_Witness ==
    /\ op = "generate_overview_questions"
    /\ LET ps == PortfoliosOf(dq_data) IN
        /\ ErrorPositions(ps) = {1, 2}
        /\ Get(ps[1], "no_of_contracts", 0) = 3
        /\ Get(ps[2], "no_of_contracts", 0) = 8720
    /\ \E i \in 1..Len(questions) : questions[i].related_data.error_contracts = 8720

(* C7: for every report whose relevant portfolio has a delinquent amount   *)
(* above 500,000 and whose error portfolio has a contract count above 0,   *)
(* generate_questionnaire yields exactly two Overview questions, the       *)
(* CRITICAL one at order_sequence 1 and the HIGH one right behind it at 2. *)
C7_OverviewPairLeads ==
    op = "generate_questionnaire" =>
        LET ps == PortfoliosOf(dq_data)
            rel == RelevantPositions(ps)
            err == ErrorPositions(ps)
        IN  (/\ rel # {} /\ Get(ps[MaxOf(rel)], "delinquent_amount", 0) > 50000000
             /\ err # {} /\ Get(ps[MaxOf(err)], "no_of_contracts", 0) > 0)
            => /\ {i \in 1..Len(questions) : questions[i].category = "Overview"} = {1, 2}
               /\ questions[1].priority = "critical"
               /\ questions[1].order_sequence = 1
               /\ questions[2].priority = "high"
               /\ questions[2].order_sequence = 2

C7_Witness ==
    /\ op = "generate_questionnaire"
    /\ LET ps == PortfoliosOf(dq_data) IN
        /\ Len(ps) = 2
        /\ ps[1] = [criteria |-> ErrorLabel, no_of_contracts |-> 8720, delinquent_amount |-> 0]
        /\ ps[2] = [criteria |-> RelevantPortfolio, no_of_contracts |-> 120,
                    delinquent_amount |-> 68292414]
    /\ Len(questions) >= 3
    /\ questions[2].category = "Overview"
    /\ questions[3].category = "Additional Information"
    /\ questions[3].priority = "high"

(* C8: the Additional-information rule emits exactly one question when     *)
(* some change category has a count above 10 (10 is not significant, 11    *)
(* is) and nothing otherwise; the question is HIGH when some category has  *)
(* a count above 50 (50 is not high impact, 51 is), otherwise MEDIUM.      *)
C8_SignificantAndHighImpact ==
    op = "generate_additional_info_questions" =>
        LET cs == ChangesOf(dq_data)
            significant == \E i \in 1..Len(cs) : cs[i][2] >= 11
            high_impact == \E i \in 1..Len(cs) : cs[i][2] >= 51
        IN  /\ Len(questions) = (IF significant THEN 1 ELSE 0)
            /\ \A i \in 1..Len(questions) :
                questions[i].priority = (IF high_impact THEN "high" ELSE "medium")

C8_Witness ==
    /\ op = "generate_additional_info_questions"
    /\ LET cs == ChangesOf(dq_data) IN
        /\ Len(cs) = 2
        /\ cs[1][2] = 50
        /\ cs[2][2] = 11
    /\ Len(questions) = 1
    /\ questions[1].priority = "medium"

(* C9: the Writeoff rule emits at most one question: one MEDIUM question   *)
(* exactly when (flags.has_new_writeoffs is set or some entry has a        *)
(* positive net loss) and some entry is labelled "Converted Portfolio" or  *)
(* "Relevant Portfolio"; the net loss quoted is that of the first such     *)
(* entry in list order, whichever entry or flag triggered the rule.        *)
C9_WriteoffFirstMainEntry ==
    op = "generate_writeoff_questions" =>
        LET ws == WriteoffsOf(dq_data)
            flagged == Get(FlagsOf(dq_data), "has_new_writeoffs", FALSE)
            positive == \E i \in 1..Len(ws) : Get(ws[i], "net_loss_amount", 0) > 0
            main == {i \in 1..Len(ws) :
                        \/ Get(ws[i], "criteria", NoneStr) = ConvertedPortfolio
                        \/ Get(ws[i], "criteria", NoneStr) = RelevantPortfolio}
            quoted == IF main = {} THEN 0 ELSE Get(ws[MinOf(main)], "net_loss_amount", 0)
        IN  /\ Len(questions) = (IF (flagged \/ positive) /\ main # {} THEN 1 ELSE 0)
            /\ \A i \in 1..Len(questions) :
                /\ questions[i].priority = "medium"
                /\ questions[i].related_data.net_loss_amount = quoted
                /\ questions[i].question_text = WriteoffText(quoted)

C9_Witness ==
    /\ op = "generate_writeoff_questions"
    /\ LET ws == WriteoffsOf(dq_data) IN
        /\ Len(ws) = 2
        /\ ws[1] = [criteria |-> ConvertedPortfolio, net_loss_amount |-> 0]
        /\ ws[2] = [criteria |-> RelevantPortfolio, net_loss_amount |-> 27505000]
    /\ Get(FlagsOf(dq_data), "has_new_writeoffs", FALSE) = FALSE
    /\ Len(questions) = 1
    /\ questions[1].related_data.net_loss_amount = 0

\* "confirm" somewhere in the description, each letter in either case
MentionsConfirm(w) ==
    LET d == Get(w, "description", <<>>)
        either == <<{"c","C"}, {"o","O"}, {"n","N"}, {"f","F"}, {"i","I"}, {"r","R"}, {"m","M"}>>
    IN  \E k \in 1..Len(d) : k + 6 <= Len(d) /\ \A j \in 1..7 : d[k + j - 1] \in either[j]

RECURSIVE MatchingContracts(_)
MatchingContracts(ws) ==
    IF ws = <<>> THEN 0
    ELSE (IF MentionsConfirm(Head(ws)) THEN Get(Head(ws), "contracts", 0) ELSE 0)
         + MatchingContracts(Tail(ws))

(* C10: the Warnings rule emits exactly one MEDIUM structured-response     *)
(* question when at least one warning description contains "confirm" in    *)
(* any letter case, and no question otherwise; the contract total it names *)
(* is the sum of the contracts of exactly the matching entries.            *)
C10_WarningsConfirmTotal ==
    op = "generate_error_warning_questions" =>
        LET ws == WarningsOf(dq_data)
            matching == \E i \in 1..Len(ws) : MentionsConfirm(ws[i])
            total == MatchingContracts(ws)
        IN  /\ Len(questions) = (IF matching THEN 1 ELSE 0)
            /\ \A i \in 1..Len(questions) :
                /\ questions[i].priority = "medium"
                /\ questions[i].expected_response_type = "structured"
                /\ questions[i].related_data.warning_contracts = total
                /\ questions[i].question_text = WarningsText(total)

C10_Witness ==
    /\ op = "generate_error_warning_questions"
    /\ LET ws == WarningsOf(dq_data) IN
        /\ Len(ws) = 2
        /\ ws[1] = [description |-> DescOther, contracts |-> 2]
        /\ ws[2] = [description |-> DescUpper, contracts |-> 5]
    /\ Len(questions) = 1
    /\ questions[1].related_data.warning_contracts = 5

----------------------------------------------------------------------------
(* C11 as stated: after generate_questionnaire (rules engine), the         *)
(* summary's requires_immediate_attention is true exactly when the         *)
(* finalized list holds at least one CRITICAL question, so a list whose    *)
(* highest priority is HIGH yields false.                                  *)
C11_Original_AttentionIffCritical ==
    op = "generate_questionnaire" =>
        (result.summary.requires_immediate_attention
            <=> \E i \in 1..Len(questions) : Rank(questions[i].priority) = 1)

(* C11: after generate_questionnaire (rules engine), the summary's         *)
(* requires_immediate_attention is true exactly when the finalized list    *)
(* holds at least one CRITICAL or HIGH question; a list whose highest      *)
(* priority is HIGH yields true.                                           *)
C11_AttentionIffCriticalOrHigh ==
    op = "generate_questionnaire" =>
        (result.summary.requires_immediate_attention
            <=> \E i \in 1..Len(questions) : Rank(questions[i].priority) <= 2)

C11_Witness ==
    /\ op = "generate_questionnaire"
    /\ questions # <<>>
    /\ \A i \in 1..Len(questions) : Rank(questions[i].priority) >= 2
    /\ Rank(questions[1].priority) = 2
    /\ result.summary.critical_priority = 0
    /\ result.summary.requires_immediate_attention

\* the summary of the call that just ran, if it produced one
SummaryComputed ==
    \/ op = "generate_questionnaire"
    \/ op = "questionnaire/generate" /\ result.status_code = 200

SummaryOf == IF op = "generate_questionnaire" THEN result.summary ELSE result.body.summary

(* C12: in both summary computations (rules engine and the                 *)
(* questionnaire/generate endpoint) total_questions is the list length,    *)
(* high_priority the number of HIGH questions, critical_priority the       *)
(* number of CRITICAL questions, their sum is at most total_questions, and *)
(* categories holds each category label of the list exactly once and no    *)
(* other label.                                                            *)
C12_SummaryCounts ==
    SummaryComputed =>
        LET summary == SummaryOf
            labels == {questions[i].category : i \in 1..Len(questions)}
        IN  /\ summary.total_questions = Len(questions)
            /\ summary.high_priority =
                    Cardinality({i \in 1..Len(questions) : Rank(questions[i].priority) = 2})
            /\ summary.critical_priority =
                    Cardinality({i \in 1..Len(questions) : Rank(questions[i].priority) = 1})
            /\ summary.high_priority + summary.critical_priority <= summary.total_questions
            /\ \A c \in labels :
                    Cardinality({k \in 1..Len(summary.categories) : summary.categories[k] = c}) = 1
            /\ \A k \in 1..Len(summary.categories) : summary.categories[k] \in labels

C12_Witness ==
    /\ op = "generate_questionnaire"
    /\ Len(questions) = 4
    /\ questions[1].category = "Overview" /\ questions[1].priority = "critical"
    /\ questions[2].category = "Overview" /\ questions[2].priority = "high"
    /\ result.summary.high_priority = 2
    /\ result.summary.critical_priority = 1
    /\ Len(result.summary.categories) = 3

(* C13: for a report with no portfolio entries, no additional-info         *)
(* changes, no writeoffs and no new-writeoff flag, and no warning whose    *)
(* description contains "confirm" (sections may be absent altogether),     *)
(* generate_questionnaire returns an empty list, all three totals 0, empty *)
(* categories and requires_immediate_attention false.                      *)
C13_EmptyReport ==
    (/\ op = "generate_questionnaire"
     /\ PortfoliosOf(dq_data) = <<>>
     /\ ChangesOf(dq_data) = <<>>
     /\ WriteoffsOf(dq_data) = <<>>
     /\ ~Get(FlagsOf(dq_data), "has_new_writeoffs", FALSE)
     /\ \A i \in 1..Len(WarningsOf(dq_data)) : ~MentionsConfirm(WarningsOf(dq_data)[i]))
    => /\ questions = <<>>
       /\ result.summary.total_questions = 0
       /\ result.summary.high_priority = 0
       /\ result.summary.critical_priority = 0
       /\ result.summary.categories = <<>>
       /\ result.summary.requires_immediate_attention = FALSE

C13_Witness ==
    /\ op = "generate_questionnaire"
    /\ "overview" \in DOMAIN dq_data /\ PortfoliosOf(dq_data) = <<>>
    /\ "additional_info" \notin DOMAIN dq_data
    /\ "writeoffs" \in DOMAIN dq_data /\ WriteoffsOf(dq_data) = <<>>
    /\ Len(WarningsOf(dq_data)) = 1
    /\ questions = <<>>
    /\ result.summary.total_questions = 0

\* the text of the submitted response, "" when there is none
SubmittedText(request) == IF "response_text" \in DOMAIN request THEN request["response_text"] ELSE ""

(* C14: validate_response with absent or empty response_text returns       *)
(* is_valid false, validation_score 0.0, issues ["Response text is         *)
(* required"], suggestions ["Please provide a detailed response"], and     *)
(* makes no call to the scoring service.                                   *)
C14_MissingTextRejected ==
    (op = "validate_response" /\ SubmittedText(dq_data.request) = "")
    => /\ result.is_valid = FALSE
       /\ result.validation_score = 0
       /\ result.issues = <<"Response text is required">>
       /\ result.suggestions = <<"Please provide a detailed response">>
       /\ result.service_calls = 0

C14_Witness ==
    /\ op = "validate_response"
    /\ "response_text" \in DOMAIN dq_data.request
    /\ dq_data.request["response_text"] = ""
    /\ result.is_valid = FALSE
    /\ result.service_calls = 0

\* the scoring call raised, or returned something without one of the four fields
ScoringFailed(openai_service) ==
    \/ openai_service.raised
    \/ \E f \in {"is_valid", "validation_score", "issues", "suggestions"} :
            f \notin DOMAIN openai_service.value

(* C15: for non-empty response_text, whenever the scoring call raises or   *)
(* its result cannot be turned into a ValidationResult, validate_response  *)
(* returns the heuristic: is_valid iff the text has at least 50            *)
(* characters, validation_score 0.6, issues ["AI validation temporarily    *)
(* unavailable"].                                                          *)
C15_FallbackHeuristic ==
    (/\ op = "validate_response"
     /\ SubmittedText(dq_data.request) # ""
     /\ ScoringFailed(dq_data.openai_service))
    => /\ result.is_valid = (Len(SubmittedText(dq_data.request)) >= 50)
       /\ result.validation_score = 60
       /\ result.issues = <<"AI validation temporarily unavailable">>

C15_Witness ==
    /\ op = "validate_response"
    /\ Len(SubmittedText(dq_data.request)) = 50
    /\ ~dq_data.openai_service.raised
    /\ DOMAIN dq_data.openai_service.value = {"is_valid"}
    /\ result.is_valid = TRUE
    /\ result.validation_score = 60

\* the posted body can be read as a ResponseSubmissionRequest
WellFormedSubmission(request) ==
    /\ request.json = "valid"
    /\ {"question_id", "confidence_level", "submitted_by"} \subseteq DOMAIN request.body
    /\ request.body["confidence_level"] \in {"high", "medium", "low"}

(* C16: a response submitted through questionnaire/{questionnaire_id}/     *)
(* response with response_text empty or absent is reported back as         *)
(* invalid: its validation has is_valid false, validation_score 0.0 and    *)
(* the issue "Response text is required".                                  *)
C16_EmptySubmissionInvalid ==
    (/\ op = "questionnaire/{questionnaire_id}/response"
     /\ WellFormedSubmission(dq_data.request)
     /\ SubmittedText(dq_data.request.body) = "")
    => /\ result.status_code = 200
       /\ result.body.data.validation.is_valid = FALSE
       /\ result.body.data.validation.validation_score = 0
       /\ result.body.data.validation.issues = <<"Response text is required">>

(* C17: when the AI step of question generation returns text that cannot   *)
(* be parsed as the expected JSON array, even after taking the span from   *)
(* the first "[" to the last "]", the questionnaire/generate request still *)
(* ends in a valid (200) questionnaire: the parse error is not propagated. *)
C17_ParseFailureFallsBack ==
    (/\ op = "questionnaire/generate"
     /\ result.ai_calls = 1
     /\ ~dq_data.completion.raised
     /\ ExtractQuestionsData(dq_data.completion.content).kind = "error")
    => result.status_code = 200

\* the complete JSON objects that occur in the text
ObjectsIn(text) == {text[i].v : i \in {k \in 1..Len(text) : text[k].t = "object"}}

(* C18: whenever the AI call in generate_chat_response returns text, the   *)
(* function returns (without raising) a mapping that has the key           *)
(* "sections": an object of the text that has "sections", or else the      *)
(* fixed fallback whose single paragraph carries the raw AI text.          *)
C18_ChatResponseHasSections ==
    (/\ op = "generate_chat_response"
     /\ dq_data.client = "client"
     /\ ~dq_data.completion.raised
     /\ dq_data.completion.content # <<>>)
    => LET text == dq_data.completion.content[1] IN
       /\ ~result.raised
       /\ "sections" \in DOMAIN result.value
       /\ \/ result.value \in ObjectsIn(text)
          \/ /\ result.value.summary = "Analysis completed - response formatting issue occurred"
             /\ Len(result.value.sections) = 1
             /\ Len(result.value.sections[1].content) = 1
             /\ result.value.sections[1].content[1].type = "paragraph"
             /\ result.value.sections[1].content[1].text = text

C18_Witness ==
    /\ op = "generate_chat_response"
    /\ ~dq_data.completion.raised
    /\ dq_data.completion.content = <<<<TokObject([summary |-> "IRR is stable"])>>>>
    /\ ~result.raised
    /\ result.value.sections[1].title = "Response"

\* the handlers of the model, by route
Handlers ==
    {"questionnaire/generate", "questionnaire/{questionnaire_id}/response", "ai-summary", "chat",
     "generate-presentation"}

(* C19: every HTTP handler returns a well-formed response for every        *)
(* request and lets no exception escape to the hosting framework; this     *)
(* includes chat_endpoint when the request body is not valid JSON.         *)
C19_HandlersAlwaysRespond ==
    op \in Handlers => result.status_code \in {200, 400, 404, 500}

\* the string fields each handler requires
RequiredFields ==
    [h \in Handlers |->
        CASE h = "ai-summary" -> {"country", "month", "group_type", "metric"}
          [] h \in {"chat", "generate-presentation"} -> {"question", "country", "month"}
          [] h = "questionnaire/generate" -> {"country", "month"}
          [] OTHER -> {}]

\* the body is present but a required field is absent or empty
LacksRequiredField ==
    /\ dq_data.request.json = "valid"
    /\ DOMAIN dq_data.request.body # {}
    /\ \/ \E f \in RequiredFields[op] :
            f \notin DOMAIN dq_data.request.body \/ dq_data.request.body[f] = ""
       \/ op = "ai-summary" /\ ("data" \notin DOMAIN dq_data.request.body
                                 \/ Len(dq_data.request.body["data"]) = 0)

(* C20: in the handlers ai-summary, chat, generate-presentation and        *)
(* questionnaire/generate, a request whose body is present but lacks a     *)
(* required field (or has it empty) is answered with status 400 and a JSON *)
(* error, and no data fetch and no AI-completion call has been made.       *)
C20_MissingFieldRejectedFirst ==
    (op \in {"ai-summary", "chat", "generate-presentation", "questionnaire/generate"}
     /\ LacksRequiredField)
    => /\ result.status_code = 400
       /\ DOMAIN result.body = {"error"}
       /\ result.fetches = <<>>
       /\ result.ai_calls = 0

C20_Witness ==
    /\ op = "chat"
    /\ DOMAIN dq_data.request.body = {"question", "country", "month"}
    /\ dq_data.request.body["question"] # ""
    /\ dq_data.request.body["month"] = ""
    /\ result.status_code = 400
    /\ result.fetches = <<>>

(* C21: every inbound request, to any handler and along any path, has made *)
(* at most one outbound data fetch and at most one outbound AI-completion  *)
(* call when it returns, including chat requests with isPowerPointRequest  *)
(* set, whatever the outcome of presentation generation.                   *)
C21_AtMostOneFetchAndOneAiCall ==
    op \in Handlers => Len(result.fetches) <= 1 /\ result.ai_calls <= 1

\* the month token of a filter, without the "eq." operator
SentMonth(filters) == SubSeq(filters.reporting_month, 4, Len(filters.reporting_month))

(* C22: fetch_country_metrics queries the metrics store with the month     *)
(* token normalized: a 7-character month M is sent as M followed by "-01", *)
(* any other string is sent unchanged; normalizing the token that was sent *)
(* leaves it unchanged.                                                    *)
C22_MonthNormalized ==
    op = "fetch_country_metrics" =>
        LET month == dq_data.month
            sent == SentMonth(result.filters)
        IN  /\ result.filters.reporting_month = "eq." \o sent
            /\ Len(month) = 7 => sent = month \o "-01"
            /\ Len(month) # 7 => sent = month
            /\ NormalizeMonth(sent) = sent

C22_Witness ==
    /\ op = "fetch_country_metrics"
    /\ dq_data.month = "2025-05"
    /\ result.filters.reporting_month = "eq.2025-05-01"

\* a question id without its timestamp suffix, and the suffix
IdPrefix(id, now) == SubSeq(id, 1, Len(id) - Len(Timestamp(now)))
IdSuffix(id, now) == SubSeq(id, Len(id) - Len(Timestamp(now)) + 1, Len(id))

\* the elements of a list, as a set
Elements(l) == {l[i] : i \in 1..Len(l)}

\* two runs agree on every question field other than the id, whose
\* timestamp suffix is the clock reading of the run
SameQuestionsUpToTimestamp ==
    LET a == result.first.questions
        b == result.second.questions
    IN  /\ Len(a) = Len(b)
        /\ \A i \in 1..Len(a) :
            /\ [a[i] EXCEPT !.id = ""] = [b[i] EXCEPT !.id = ""]
            /\ IdPrefix(a[i].id, dq_data.now1) = IdPrefix(b[i].id, dq_data.now2)
            /\ IdSuffix(a[i].id, dq_data.now1) = Timestamp(dq_data.now1)
            /\ IdSuffix(b[i].id, dq_data.now2) = Timestamp(dq_data.now2)

(* C23 as stated: running generate_questionnaire twice on the same report  *)
(* with the clock fixed yields identical question lists and identical      *)
(* summaries; with different clocks only the timestamp suffix of each      *)
(* question id may differ.                                                 *)
C23_Original_RerunIdentical ==
    op = "generate_questionnaire twice" =>
        /\ SameQuestionsUpToTimestamp
        /\ result.first.header = result.second.header
        /\ dq_data.now1 = dq_data.now2 => result.first.questions = result.second.questions

(* C23: running generate_questionnaire twice on the same report with the   *)
(* clock fixed yields identical question lists, and summaries that are     *)
(* identical except for the order of the categories list, which holds the  *)
(* same labels; with different clocks only the timestamp suffix of each    *)
(* question id may differ.                                                 *)
C23_RerunIdenticalUpToCategoryOrder ==
    op = "generate_questionnaire twice" =>
        LET a == result.first.header
            b == result.second.header
        IN  /\ SameQuestionsUpToTimestamp
            /\ dq_data.now1 = dq_data.now2 => result.first.questions = result.second.questions
            /\ [a EXCEPT !.summary = <<>>] = [b EXCEPT !.summary = <<>>]
            /\ [a.summary EXCEPT !.categories = <<>>] = [b.summary EXCEPT !.categories = <<>>]
            /\ Elements(a.summary.categories) = Elements(b.summary.categories)
            /\ Len(a.summary.categories) = Len(b.summary.categories)

C23_Witness ==
    /\ op = "generate_questionnaire twice"
    /\ dq_data.now1 # dq_data.now2
    /\ Len(result.first.questions) = 4
    /\ result.first.questions[1].id # result.second.questions[1].id
    /\ result.first.header.summary.categories # result.second.header.summary.categories

\* a question without its order_sequence
Unnumbered(q) == [q EXCEPT !.order_sequence = 0]

\* how often the question occurs in the list, order_sequence aside
Occurrences(q, qs) == Cardinality({i \in 1..Len(qs) : Unnumbered(qs[i]) = Unnumbered(q)})

\* the two lists hold the same questions equally often, order_sequence aside
SameQuestionMultiset(before, after) ==
    /\ Len(before) = Len(after)
    /\ \A i \in 1..Len(before) : Occurrences(before[i], before) = Occurrences(before[i], after)

(* C24: finalization in generate_questionnaire (sort and renumber) changes *)
(* no field of any emitted Question other than order_sequence and neither  *)
(* adds nor removes questions: the questions the four rules emitted and    *)
(* the finalized list are the same multiset once order_sequence is set     *)
(* aside.                                                                  *)
C24_FinalizationFrame ==
    op = "generate_questionnaire" =>
        \E now \in Clock : SameQuestionMultiset(CollectQuestions(dq_data, now), questions)

C24_Witness ==
    /\ op = "generate_questionnaire"
    /\ Len(questions) = 3
    /\ questions[1].category = "Overview" /\ questions[1].priority = "high"
    /\ questions[1].order_sequence = 1
    /\ questions[3].category = "Warnings" /\ questions[3].order_sequence = 3

\* the handler made its data fetch and the store answered with these rows
FetchReturned(rows) ==
    /\ Len(result.fetches) = 1
    /\ ~dq_data.metrics.raised
    /\ dq_data.metrics.rows = rows

(* C25: in chat, generate-presentation and questionnaire/generate an       *)
(* AI-completion call is made only after the data fetch has returned at    *)
(* least one record; when the fetch returns zero records no AI call is     *)
(* made, generate-presentation and questionnaire/generate answer 404, and  *)
(* chat answers with success true and data_available false.                *)
C25_AiCallOnlyAfterData ==
    op \in {"chat", "generate-presentation", "questionnaire/generate"} =>
        /\ result.ai_calls > 0 =>
            /\ Len(result.fetches) = 1
            /\ ~dq_data.metrics.raised
            /\ Len(dq_data.metrics.rows) >= 1
        /\ FetchReturned(<<>>) =>
            /\ result.ai_calls = 0
            /\ op # "chat" => result.status_code = 404
            /\ op = "chat" =>
                /\ result.status_code = 200
                /\ result.body.success = TRUE
                /\ result.body.data.context.data_available = FALSE

C25_Witness ==
    /\ op = "chat"
    /\ FetchReturned(<<>>)
    /\ result.ai_calls = 0
    /\ result.status_code = 200
    /\ result.body.data.context.data_available = FALSE

\* the changes with a count above 10, in input order
RECURSIVE SignificantOf(_)
SignificantOf(changes) ==
    IF changes = <<>> THEN <<>>
    ELSE (IF Head(changes)[2] > 10 THEN <<Head(changes)>> ELSE <<>>) \o SignificantOf(Tail(changes))

\* the first n elements of a list, all of them if it is shorter
Prefix(l, n) == [i \in 1..(IF Len(l) < n THEN Len(l) ELSE n) |-> l[i]]

ChangesIntro ==
    "You'll find the list of contracts in the \"Additional Information\" sheet of the DQ report. Can you please provide clarifications on the changes highlighted: "

SectionOrder == <<"Overview", "Additional Information", "Writeoffs", "Warnings">>

\* the position of a category in SectionOrder
SectionIndex(category) == CHOOSE k \in 1..Len(SectionOrder) : SectionOrder[k] = category

(* C27: in generate_questionnaire the priority sort reorders nothing: the   *)
(* finalized list is, order_sequence aside, the concatenation of the four   *)
(* rules' outputs in section order Overview, Additional Information,        *)
(* Writeoffs, Warnings, and it never holds more than 5 questions.           *)
C27_SortKeepsSectionOrder ==
    op = "generate_questionnaire" =>
        /\ Len(questions) <= 5
        /\ \E now \in Clock :
            LET emitted == CollectQuestions(dq_data, now) IN
            /\ Len(questions) = Len(emitted)
            /\ \A i \in 1..Len(emitted) : Unnumbered(questions[i]) = Unnumbered(emitted[i])
        /\ \A i, j \in 1..Len(questions) :
            i < j => SectionIndex(questions[i].category) <= SectionIndex(questions[j].category)

C27_Witness ==
    /\ op = "generate_questionnaire"
    /\ Len(questions) = 5
    /\ questions[1].priority = "critical"
    /\ questions[2].priority = "high"
    /\ questions[3].category = "Additional Information"
    /\ questions[4].category = "Writeoffs"
    /\ questions[5].category = "Warnings"
    /\ questions[4].priority = questions[5].priority

(* C28: in every analysis of analyze_dq_report the attention flag agrees    *)
(* with the risk level: risk_level "high" implies requires_attention, and   *)
(* requires_attention implies that risk_level is not "low".                 *)
C28_AttentionConsistentWithLevel ==
    op = "analyze_dq_report" =>
        /\ result.risk_level = "high" => result.requires_attention
        /\ result.requires_attention => result.risk_level # "low"
        /\ result.requires_attention <=> result.risk_score[1] > 7 * result.risk_score[2]
        /\ result.risk_level = "high" <=> result.risk_score[1] >= 8 * result.risk_score[2]
        /\ result.risk_level = "low" <=> result.risk_score[1] < 5 * result.risk_score[2]

C28_Witness ==
    /\ op = "analyze_dq_report"
    /\ result.requires_attention
    /\ result.risk_level = "medium"
    /\ result.risk_score[1] > 7 * result.risk_score[2]
    /\ result.risk_score[1] < 8 * result.risk_score[2]

\* the handlers that create an event loop for an outbound data fetch
LoopHandlers ==
    {"chat", "generate-presentation", "country-metrics", "questionnaire/generate", "chat/health",
     "test-supabase-api"}

(* C29 as stated: every event loop that a handler creates for an outbound  *)
(* data fetch is closed before the handler returns, whether the fetch      *)
(* succeeds or raises, in chat, generate-presentation, country-metrics,    *)
(* questionnaire/generate, chat/health and test-supabase-api.              *)
C29_EveryLoopClosed ==
    op \in LoopHandlers => result.loops_closed = result.loops_created

(* C30: process_response reports status "completed" exactly when the       *)
(* validation it is given has is_valid true, and "partial" otherwise; fed   *)
(* with the result of validate_response, a submission with absent or empty  *)
(* response_text is never "completed", and when the scoring call raises the *)
(* status is "completed" exactly when the text has at least 50 characters.  *)
C30_StatusFollowsValidation ==
    op = "process_response" =>
        LET text == SubmittedText(dq_data.request) IN
        /\ result.status \in {"completed", "partial"}
        /\ result.status = "completed" <=> dq_data.validation.is_valid = TRUE
        /\ text = "" => result.status = "partial"
        /\ (text # "" /\ dq_data.openai_service.raised)
            => (result.status = "completed" <=> Len(text) >= 50)

C30_Witness ==
    /\ op = "process_response"
    /\ Len(SubmittedText(dq_data.request)) = 49
    /\ dq_data.openai_service.raised
    /\ dq_data.validation.validation_score = 60
    /\ result.status = "partial"

====
